---- MODULE Spec2Model ----
(***************************************************************************)
(* Crowd monitoring back end (src/FastAPI/main.py): the alert              *)
(* deduplication gate, the content hash, the broadcast hub, the source     *)
(* worker (FrameProcessor) life cycle and the density tier.                *)
(*                                                                         *)
(* Strings that the code builds by concatenation are sequences of tokens:  *)
(* a token is either "_" or a maximal run of characters holding no "_",    *)
(* so two token sequences are equal exactly when the strings are.          *)
(* Time is time.time() in whole seconds.                                   *)
(***************************************************************************)
EXTENDS Integers, Sequences, FiniteSets, TLC

VARIABLES
    now,                  \* the wall clock, time.time()
    alert_content_hash,   \* state.alert_content_hash : alert_key -> hash
    alert_last_sent,      \* state.alert_last_sent    : alert_key -> time
    gate_calls,           \* number of _should_send_alert calls made so far
    gate_last,            \* the last _should_send_alert call: arguments, result
    gate_ref,             \* per (kind, camera): hash and time of the last call let through
    gate_scen,            \* per (kind, camera): the calls made on the pair, summarised
    fn_in,                \* the arguments of the last call of the function under study
    fn_out,               \* and what it returned (empty: not called, or it raised)
    websocket_connections,\* state.websocket_connections: the subscriber sets
    ws_accepted,          \* the WebSocket objects the endpoints have accepted so far
    bc,                   \* the _broadcast_to_websockets call in progress, or the last one (SpecHub: all of them)
    fp,                   \* state.frame_processors: camera id -> FrameProcessor
    crowd_flow_data,      \* state.crowd_flow_data: zone id -> live data
    zones,                \* state.zones: zone id -> zone
    alerts_sent,          \* the alerts that were sent to a subscriber
    source,               \* FrameProcessor.source: an rtsp stream or a video file
    is_running,           \* FrameProcessor.is_running
    processing_thread,    \* FrameProcessor.processing_thread
    threads,              \* the worker threads, each at its place in its loop
    caller,               \* the start() or stop() call in progress
    last_start,           \* the start() call that has just returned: the object before and after
    life,                 \* whether stop() has returned, and what the worker did after that
    camera_configs,       \* state.camera_configs: camera id -> what it was started with
    ws_tasks              \* the endpoint coroutines: WebSocket -> where it is in its loop

dedupVars == <<alert_content_hash, alert_last_sent>>
gateVars  == <<gate_calls, gate_last, gate_ref, gate_scen>>
fnVars    == <<fn_in, fn_out>>
hubVars   == <<websocket_connections, ws_accepted, bc>>
handleVars == <<fp, crowd_flow_data, zones, alerts_sent>>
workerVars == <<source, is_running, processing_thread, threads, caller, last_start, life>>
configVars == <<camera_configs>>
taskVars == <<ws_tasks>>
vars      == <<now, dedupVars, gateVars, fnVars, hubVars, handleVars, workerVars, configVars, taskVars>>

\* what each specification leaves alone
notDedup     == <<fnVars, hubVars, handleVars, workerVars, configVars, taskVars>>
notFn        == <<now, dedupVars, gateVars, hubVars, handleVars, workerVars, configVars, taskVars>>
notBroadcast == <<now, dedupVars, gateVars, fnVars, handleVars, workerVars, configVars, taskVars>>
notWorker    == <<now, dedupVars, gateVars, fnVars, hubVars, handleVars, configVars, taskVars>>

----------------------------------------------------------------------------
(* Bounds *)

MaxGateTime == 2    \* SpecDedup: the clock stops advancing here
MaxCalls == 3       \* SpecDedup: _should_send_alert calls in one behaviour
MaxThreshold == 10  \* SpecDensity: the per-camera thresholds are 1..MaxThreshold
MaxCount == 12      \* SpecDensity: the detection counts are 0..MaxCount
MaxPayloadLen == 3  \* SpecHash: the payloads hold at most this many keys
MaxSockets == 3     \* SpecBroadcast: WebSocket objects accepted in one behaviour
MaxHandleTime == 3  \* SpecHandle: the clock stops advancing here
MaxFallen == 1      \* SpecHandle: detections of one frame that look fallen
MaxThreads == 2     \* SpecWorker: loops spawned in one behaviour
MaxFrames == 4      \* SpecWorker: frames cap.read() gives one loop
MaxHubSockets == 2  \* SpecHub: WebSocket objects accepted in one behaviour
MaxCreated == 2     \* SpecAdmin: zones created in one behaviour
MaxCapacity == 10   \* SpecHeatLevel: the zone capacities are 1..MaxCapacity
MaxTracked == 12    \* SpecTracker: frames analyzed in one behaviour
MaxPingTime == 62   \* SpecPing: the clock stops advancing here
MaxPingSockets == 2 \* SpecPing: WebSocket objects accepted in one behaviour
MaxConnectTime == 2 \* SpecPing: no connection is accepted after this time

None == "None"

----------------------------------------------------------------------------
(* Alert kinds and camera ids, as token sequences *)

LIVE_COUNT_UPDATE == <<"LIVE", "_", "COUNT", "_", "UPDATE">>
THRESHOLD_BREACH  == <<"THRESHOLD", "_", "BREACH">>
ANOMALY_ALERT     == <<"ANOMALY", "_", "ALERT">>
HEATMAP_ALERT     == <<"HEATMAP", "_", "ALERT">>

AlertKinds == {LIVE_COUNT_UPDATE, THRESHOLD_BREACH, ANOMALY_ALERT, HEATMAP_ALERT}

\* camera ids are free-form strings given by the caller; one of them holds
\* an underscore and a word that also ends an alert kind
CameraIds == {<<"cam1">>, <<"ALERT", "_", "cam1">>}

Pairs == AlertKinds \X CameraIds

\* the content hashes handed to the gate when it is exercised on its own
Hashes == {"h1", "h2"}

\* the debounce_time argument the gate is exercised with on its own: the
\* interval of the live count updates (line 719)
Debounces == {2}

----------------------------------------------------------------------------
(* _should_send_alert *)

\* alert_key = f"{alert_type}_{camera_id}"
AlertKeyNoCamera(alert_type, camera_id) == alert_type \o <<"_">>

AlertKey(alert_type, camera_id) == alert_type \o <<"_">> \o camera_id

Put(f, k, v) == [x \in (DOMAIN f) \cup {k} |-> IF x = k THEN v ELSE f[x]]

\* the two tables as one value, so that a handler can thread them through
\* the several calls it makes
DedupTables == [hash |-> alert_content_hash, last |-> alert_last_sent]

\* lines 2001-2005: the test that makes the function return False
SuppressedInclusive(tabs, key, content_hash, debounce_time, current_time) ==
    /\ key \in DOMAIN tabs.hash
    /\ tabs.hash[key] = content_hash
    /\ key \in DOMAIN tabs.last
    /\ current_time - tabs.last[key] <= debounce_time

Suppressed(tabs, key, content_hash, debounce_time, current_time) ==
    /\ key \in DOMAIN tabs.hash
    /\ tabs.hash[key] = content_hash
    /\ key \in DOMAIN tabs.last
    /\ current_time - tabs.last[key] < debounce_time

\* lines 2007-2010: the tables once the call is let through
GateUpdateHashOnly(tabs, key, content_hash, current_time) ==
    [hash |-> Put(tabs.hash, key, content_hash), last |-> tabs.last]

\* lines 2007-2010 with the entry stored under the key and the content
GateUpdateKeyedByContent(tabs, key, content_hash, current_time) ==
    [hash |-> Put(tabs.hash, key \o <<content_hash>>, content_hash),
     last |-> Put(tabs.last, key \o <<content_hash>>, current_time)]

GateUpdate(tabs, key, content_hash, current_time) ==
    [hash |-> Put(tabs.hash, key, content_hash),
     last |-> Put(tabs.last, key, current_time)]

\* the function with a suppressed call restarting the window
ShouldSendAlertRestarting(tabs, alert_type, camera_id, content_hash, debounce_time, current_time) ==
    LET alert_key == AlertKey(alert_type, camera_id)
    IN  IF Suppressed(tabs, alert_key, content_hash, debounce_time, current_time)
        THEN [ret |-> FALSE,
              tabs |-> [hash |-> tabs.hash,
                        last |-> Put(tabs.last, alert_key, current_time)]]
        ELSE [ret |-> TRUE,
              tabs |-> GateUpdate(tabs, alert_key, content_hash, current_time)]

\* the whole function: its result and the tables it leaves
_should_send_alert(tabs, alert_type, camera_id, content_hash, debounce_time, current_time) ==
    LET alert_key == AlertKey(alert_type, camera_id)
    IN  IF Suppressed(tabs, alert_key, content_hash, debounce_time, current_time)
        THEN [ret |-> FALSE, tabs |-> tabs]
        ELSE [ret |-> TRUE,
              tabs |-> GateUpdate(tabs, alert_key, content_hash, current_time)]

----------------------------------------------------------------------------
(* The broadcast hub: state.websocket_connections and                     *)
(* FrameProcessor._broadcast_to_websockets                                 *)

WebSockets == 1..MaxSockets

\* lines 112-117: three sets and a defaultdict(set) keyed by camera id
HubInit ==
    /\ websocket_connections =
           [alerts |-> {}, frames |-> << >>, instructions |-> {}, live_map |-> {}]
    /\ ws_accepted = {}
    /\ bc = [pc |-> "idle", channel |-> None, camera_id |-> << >>,
             connections |-> {}, todo |-> {}, dead_connections |-> {},
             serialized |-> FALSE, encoded |-> FALSE,
             attempts |-> << >>, failed |-> {}, delivered |-> {},
             before |-> [alerts |-> {}, frames |-> << >>,
                         instructions |-> {}, live_map |-> {}]]

\* the channels a set of connections is kept for: three global ones and one
\* per camera
Channels ==
    {<<"alerts", << >> >>, <<"instructions", << >> >>, <<"live_map", << >> >>}
        \cup {<<"frames", c>> : c \in CameraIds}

\* state.websocket_connections["frames"][camera_id] on a defaultdict(set):
\* a missing key reads as the empty set
FramesOf(conns, camera_id) ==
    IF camera_id \in DOMAIN conns.frames THEN conns.frames[camera_id] ELSE {}

\* the set of lines 880-885
ChannelSet(conns, channel, camera_id) ==
    IF channel = "frames" THEN FramesOf(conns, camera_id)
    ELSE IF channel = "live_map" THEN conns.live_map
    ELSE IF channel = "instructions" THEN conns.instructions
    ELSE conns.alerts

\* the registry with the channel's set replaced; indexing the defaultdict
\* creates the camera's key
WithChannelSet(conns, channel, camera_id, set) ==
    IF channel = "frames"
    THEN [conns EXCEPT !.frames = Put(conns.frames, camera_id, set)]
    ELSE IF channel = "live_map" THEN [conns EXCEPT !.live_map = set]
    ELSE IF channel = "instructions" THEN [conns EXCEPT !.instructions = set]
    ELSE [conns EXCEPT !.alerts = set]

\* no call of _broadcast_to_websockets is running ("returned": the last one
\* has just returned and nothing has happened since)
NoCall == bc.pc \in {"idle", "returned"}

\* lines 1018, 1048, 1076, 1101-1102: an endpoint accepts a connection and
\* adds it to its channel's set
WsSubscribe(channel, camera_id, ws) ==
    /\ ws \notin ws_accepted
    /\ ws_accepted' = ws_accepted \cup {ws}
    /\ websocket_connections' =
           WithChannelSet(websocket_connections, channel, camera_id,
               ChannelSet(websocket_connections, channel, camera_id) \cup {ws})

\* lines 1042, 1070, 1094, 1128: the endpoint's finally clause
WsDisconnect(channel, camera_id, ws) ==
    /\ ws \in ChannelSet(websocket_connections, channel, camera_id)
    /\ websocket_connections' =
           WithChannelSet(websocket_connections, channel, camera_id,
               ChannelSet(websocket_connections, channel, camera_id) \ {ws})
    /\ UNCHANGED ws_accepted

\* line 890 is reached, and json.dumps run, only past the test of line 887
SerializesAlways(connections) == TRUE

Serializes(connections) == connections # {}

\* lines 880-893: the snapshot, the early return, the serialization
BroadcastBegin(channel, camera_id, encoded) ==
    LET reg == IF channel = "frames"
               THEN WithChannelSet(websocket_connections, channel, camera_id,
                        FramesOf(websocket_connections, camera_id))
               ELSE websocket_connections
        connections == ChannelSet(reg, channel, camera_id)
    IN  /\ websocket_connections' = reg
        /\ bc' = [pc |-> IF connections = {} THEN "returned" ELSE "send",
                  channel |-> channel, camera_id |-> camera_id,
                  connections |-> connections, todo |-> connections,
                  dead_connections |-> {},
                  serialized |-> Serializes(connections),
                  encoded |-> encoded,
                  attempts |-> [ws \in connections |-> 0],
                  failed |-> {}, delivered |-> {},
                  before |-> websocket_connections]
        /\ UNCHANGED ws_accepted

\* lines 895-902, one turn of the loop: the send to `websocket` succeeds or
\* raises; attempts, failed and delivered record what happened
AfterSendAbort(call, websocket, ok) ==
    [call EXCEPT
        !.todo = IF ok THEN @ \ {websocket} ELSE {},
        !.pc = IF (IF ok THEN call.todo \ {websocket} ELSE {}) = {}
               THEN "cleanup" ELSE "send",
        !.dead_connections = IF ok THEN @ ELSE @ \cup {websocket},
        !.attempts = [@ EXCEPT ![websocket] = @ + 1],
        !.failed = IF ok THEN @ ELSE @ \cup {websocket},
        !.delivered = IF ok THEN @ \cup {websocket} ELSE @]

AfterSend(call, websocket, ok) ==
    [call EXCEPT
        !.todo = @ \ {websocket},
        !.pc = IF call.todo \ {websocket} = {} THEN "cleanup" ELSE "send",
        !.dead_connections = IF ok THEN @ ELSE @ \cup {websocket},
        !.attempts = [@ EXCEPT ![websocket] = @ + 1],
        !.failed = IF ok THEN @ ELSE @ \cup {websocket},
        !.delivered = IF ok THEN @ \cup {websocket} ELSE @]

BroadcastSend(websocket, ok) ==
    /\ bc.pc = "send"
    /\ websocket \in bc.todo
    /\ bc' = AfterSend(bc, websocket, ok)
    /\ UNCHANGED <<websocket_connections, ws_accepted>>

\* lines 904-911: the dead connections leave the channel's set
BroadcastCleanup ==
    /\ bc.pc = "cleanup"
    /\ websocket_connections' =
           IF bc.dead_connections = {} THEN websocket_connections
           ELSE WithChannelSet(websocket_connections, bc.channel, bc.camera_id,
                    ChannelSet(websocket_connections, bc.channel, bc.camera_id)
                        \ bc.dead_connections)
    /\ bc' = [bc EXCEPT !.pc = "returned"]
    /\ UNCHANGED ws_accepted

\* lines 720, 740, 762, 779: an alert is handed to the alerts channel
PublishAlert ==
    /\ NoCall
    /\ BroadcastBegin("alerts", << >>, FALSE)

\* lines 805-819: the zone update goes to the live map channel
PublishLiveMap ==
    /\ NoCall
    /\ BroadcastBegin("live_map", << >>, FALSE)

\* lines 781-803: the live frame is encoded and published only if the
\* camera's frame channel has a subscriber when line 782 looks
PublishFrame(camera_id) ==
    /\ NoCall
    /\ IF /\ camera_id \in DOMAIN websocket_connections.frames
          /\ Cardinality(websocket_connections.frames[camera_id]) > 0
       THEN BroadcastBegin("frames", camera_id, TRUE)
       ELSE /\ bc' = [pc |-> "returned", channel |-> "frames",
                      camera_id |-> camera_id,
                      connections |-> {}, todo |-> {}, dead_connections |-> {},
                      serialized |-> FALSE, encoded |-> FALSE,
                      attempts |-> << >>, failed |-> {}, delivered |-> {},
                      before |-> websocket_connections]
            /\ UNCHANGED <<websocket_connections, ws_accepted>>

----------------------------------------------------------------------------
(* The life cycle of a source worker: FrameProcessor.start, stop and the   *)
(* loop of _process_stream.                                                *)
(*                                                                         *)
(* start() and stop() are called by the request handlers, which run one    *)
(* at a time on the event loop's thread; each loop runs on a thread of its *)
(* own.                                                                    *)

\* CONFIG['processing']['frame_skip']
frame_skip == 2

\* self.processing_thread = None
NoThread == 0

\* self.source: an rtsp:// URL, an http:// URL (both opened as network
\* captures, lines 474-476) or the path of a video file
Sources == {"rtsp", "http", "file"}

\* the camera of the worker, and the frame_id of line 581
WorkerCamera == "cam1"

FrameId(camera_id, frame_count) == camera_id \o "_" \o ToString(frame_count)

\* the object as start() sees it: the two attributes and the threads
\* spawned so far, each at its place in _process_stream
\* reads counts the frames cap.read() has given, analyzed lists the frame
\* ids _analyze_frame was called for, ended says what ended the thread
NewThread ==
    [pc |-> "open", frame_count |-> 0, reads |-> 0, analyzed |-> << >>,
     ended |-> "no"]

StartUnguarded(w) ==
    [is_running |-> TRUE,
     processing_thread |-> Len(w.threads) + 1,
     threads |-> Append(w.threads, NewThread)]

\* lines 450-458
start(w) ==
    IF w.is_running THEN w
    ELSE [is_running |-> TRUE,
          processing_thread |-> Len(w.threads) + 1,
          threads |-> Append(w.threads, NewThread)]

\* FrameProcessor.__init__, lines 433 and 438
NewWorkerObject ==
    [is_running |-> FALSE, processing_thread |-> NoThread, threads |-> << >>]

\* stop() has not returned
NoLife == [stop_returned |-> FALSE, after_stop |-> {}]

\* no start() call has just returned
NoStart ==
    [made |-> FALSE, before |-> NewWorkerObject, after |-> NewWorkerObject]

WorkerObject ==
    [is_running |-> is_running, processing_thread |-> processing_thread,
     threads |-> threads]

WorkerInit ==
    /\ source \in Sources
    /\ is_running = FALSE
    /\ processing_thread = NoThread
    /\ threads = << >>
    /\ caller = [pc |-> "idle"]
    /\ last_start = NoStart
    /\ life = NoLife

\* no worker exists
WorkerIdle ==
    /\ source = "file"
    /\ is_running = FALSE
    /\ processing_thread = NoThread
    /\ threads = << >>
    /\ caller = [pc |-> "idle"]
    /\ last_start = NoStart
    /\ life = NoLife

\* a handler calls start(); last_start keeps the object as the call found
\* it and as it left it, until the next step of anyone
Start ==
    /\ caller.pc = "idle"
    /\ is_running \/ Len(threads) < MaxThreads
    /\ LET w == start(WorkerObject)
       IN  /\ is_running' = w.is_running
           /\ processing_thread' = w.processing_thread
           /\ threads' = w.threads
           /\ last_start' = [made |-> TRUE, before |-> WorkerObject,
                             after |-> w]
    /\ life' = [life EXCEPT !.stop_returned = FALSE]
    /\ UNCHANGED <<source, caller>>

\* lines 462-464: stop() clears the flag and, if a thread was ever started,
\* joins the last one
StopBegin ==
    /\ caller.pc = "idle"
    /\ is_running' = FALSE
    /\ IF processing_thread # NoThread
       THEN /\ caller' = [pc |-> "join"]
            /\ UNCHANGED life
       ELSE /\ life' = [life EXCEPT !.stop_returned = TRUE]
            /\ UNCHANGED caller
    /\ UNCHANGED <<source, processing_thread, threads>>

\* join returns because the thread has ended
JoinDone ==
    /\ caller.pc = "join"
    /\ threads[processing_thread].pc = "done"
    /\ caller' = [pc |-> "idle"]
    /\ life' = [life EXCEPT !.stop_returned = TRUE]
    /\ UNCHANGED <<source, is_running, processing_thread, threads>>

\* the places of the loop where a thread can stay longer than the join
\* waits: opening the source, cap.read(), the reconnection, the detection
\* and the sends of the handler
Blocking == {"open", "read", "reconnect", "analyze", "handle"}

\* join(timeout=2.0) returns with the thread still alive
JoinTimeout ==
    /\ caller.pc = "join"
    /\ threads[processing_thread].pc \in Blocking
    /\ caller' = [pc |-> "idle"]
    /\ life' = [life EXCEPT !.stop_returned = TRUE]
    /\ UNCHANGED <<source, is_running, processing_thread, threads>>

\* what the worker does once stop() has returned
Note(what) ==
    [life EXCEPT !.after_stop = IF life.stop_returned THEN @ \cup {what} ELSE @]

\* lines 474-488: the capture is opened, or ValueError ends the thread
Open(t, ok) ==
    /\ threads[t].pc = "open"
    /\ threads' = IF ok THEN [threads EXCEPT ![t].pc = "test"]
                   ELSE [threads EXCEPT ![t].pc = "done", ![t].ended = "open"]
    /\ UNCHANGED <<source, is_running, processing_thread, caller, life>>

\* line 490: while self.is_running
Test(t) ==
    /\ threads[t].pc = "test"
    /\ threads' = IF is_running THEN [threads EXCEPT ![t].pc = "read"]
                   ELSE [threads EXCEPT ![t].pc = "done", ![t].ended = "stop"]
    /\ UNCHANGED <<source, is_running, processing_thread, caller, life>>

\* lines 491-507 with a failed read counted as a frame
ReadCountingFailures(t, ret) ==
    /\ threads[t].pc = "read"
    /\ threads[t].frame_count < MaxFrames
    /\ LET counted == [threads EXCEPT ![t].frame_count = @ + 1,
                                      ![t].reads = IF ret THEN @ + 1 ELSE @]
       IN  threads' =
               IF ret
               THEN [counted EXCEPT
                        ![t].pc = IF (threads[t].frame_count + 1) % frame_skip # 0
                                  THEN "test" ELSE "analyze"]
               ELSE IF source = "rtsp"
               THEN [counted EXCEPT ![t].pc = "reconnect"]
               ELSE [counted EXCEPT ![t].pc = "done", ![t].ended = "read"]
    /\ UNCHANGED <<source, is_running, processing_thread, caller, life>>

\* lines 491-507: cap.read() gives a frame, which is counted and either
\* skipped or kept, or gives none; then line 493 asks whether the source
\* starts with rtsp://
Read(t, ret) ==
    /\ threads[t].pc = "read"
    /\ ret => threads[t].frame_count < MaxFrames
    /\ threads' =
           IF ret
           THEN [threads EXCEPT
                    ![t].frame_count = @ + 1,
                    ![t].reads = @ + 1,
                    ![t].pc = IF (threads[t].frame_count + 1) % frame_skip # 0
                              THEN "test" ELSE "analyze"]
           ELSE IF source = "rtsp"
           THEN [threads EXCEPT ![t].pc = "reconnect"]
           ELSE [threads EXCEPT ![t].pc = "done", ![t].ended = "read"]
    /\ UNCHANGED <<source, is_running, processing_thread, caller, life>>

\* lines 495-498
Reconnect(t) ==
    /\ threads[t].pc = "reconnect"
    /\ threads' = [threads EXCEPT ![t].pc = "test"]
    /\ UNCHANGED <<source, is_running, processing_thread, caller, life>>

\* line 511: the frame is analyzed, or _analyze_frame raises
Analyze(t, ok) ==
    /\ threads[t].pc = "analyze"
    /\ threads' = [threads EXCEPT
           ![t].pc = IF ok THEN "handle" ELSE "test",
           ![t].analyzed =
               Append(@, FrameId(WorkerCamera, threads[t].frame_count))]
    /\ life' = IF ok THEN Note("analyze") ELSE life
    /\ UNCHANGED <<source, is_running, processing_thread, caller>>

\* line 512: the handler runs; `published`: it sent a message to some
\* subscriber; it returns or raises
Handle(t, published, ok) ==
    /\ threads[t].pc = "handle"
    /\ threads' = [threads EXCEPT ![t].pc = IF ok THEN "sleep" ELSE "test"]
    /\ life' = IF published THEN Note("broadcast") ELSE life
    /\ UNCHANGED <<source, is_running, processing_thread, caller>>

\* line 519
Sleep(t) ==
    /\ threads[t].pc = "sleep"
    /\ threads' = [threads EXCEPT ![t].pc = "test"]
    /\ UNCHANGED <<source, is_running, processing_thread, caller, life>>

----------------------------------------------------------------------------
(* The clock *)

Tick(limit) ==
    /\ now < limit
    /\ now' = now + 1

\* lines 108-130: no processor, no zone; nothing was sent
HandlerIdle ==
    /\ fp = << >>
    /\ crowd_flow_data = << >>
    /\ zones = << >>
    /\ alerts_sent = {}
    /\ camera_configs = << >>
    /\ ws_tasks = << >>

----------------------------------------------------------------------------
(* SpecDedup: the gate exercised on its own, by any caller *)

DedupInit ==
    /\ alert_content_hash = << >>
    /\ alert_last_sent = << >>

ScenInit ==
    [n |-> 0, h |-> None, t1 |-> 0, rets |-> << >>, ok |-> TRUE,
     calls |-> 0, prev |-> None, alt |-> TRUE, supp |-> FALSE]

NoStored == [has |-> FALSE, hash |-> None, time |-> 0]

GateInit ==
    /\ gate_calls = 0
    /\ gate_last = [made |-> FALSE, kind |-> << >>, camera |-> << >>,
                    hash |-> None, debounce |-> 0, time |-> 0, ret |-> FALSE,
                    stored |-> NoStored]
    /\ gate_ref = << >>
    /\ gate_scen = [p \in Pairs |-> ScenInit]

\* what is remembered of the calls made on one (kind, camera) pair:
\*   n, h, t1, rets, ok : the calls follow "first call with h at t1, second
\*       call with h less than its debounce after t1, third call with h at
\*       least its debounce after t1"; n of them were made, with results rets
\*   calls, prev, alt, supp : how many calls; the hash of the previous call;
\*       whether every call so far gave a hash other than the call before it;
\*       whether any call of the pair returned False
ScenStep(s, content_hash, debounce_time, ret) ==
    LET follows ==
            \/ s.n = 0
            \/ s.n = 1 /\ content_hash = s.h /\ now - s.t1 < debounce_time
            \/ s.n = 2 /\ content_hash = s.h /\ now - s.t1 >= debounce_time
        counted == s.ok /\ s.n < 3
    IN  [n    |-> IF counted /\ follows THEN s.n + 1 ELSE s.n,
         h    |-> IF s.n = 0 THEN content_hash ELSE s.h,
         t1   |-> IF s.n = 0 THEN now ELSE s.t1,
         rets |-> IF counted /\ follows THEN Append(s.rets, ret) ELSE s.rets,
         ok   |-> IF counted THEN follows ELSE s.ok,
         calls |-> s.calls + 1,
         prev |-> content_hash,
         alt  |-> s.alt /\ s.prev # content_hash,
         supp |-> s.supp \/ ~ret]

GateCall(alert_type, camera_id, content_hash, debounce_time) ==
    LET r == _should_send_alert(DedupTables, alert_type, camera_id,
                                content_hash, debounce_time, now)
        pair == <<alert_type, camera_id>>
    IN  /\ gate_calls < MaxCalls
        /\ alert_content_hash' = r.tabs.hash
        /\ alert_last_sent' = r.tabs.last
        /\ gate_calls' = gate_calls + 1
        /\ gate_last' = [made |-> TRUE, kind |-> alert_type, camera |-> camera_id,
                         hash |-> content_hash, debounce |-> debounce_time,
                         time |-> now, ret |-> r.ret,
                         stored |-> IF pair \in DOMAIN gate_ref
                                    THEN gate_ref[pair] ELSE NoStored]
        /\ gate_ref' = IF r.ret
                       THEN Put(gate_ref, pair,
                                [has |-> TRUE, hash |-> content_hash, time |-> now])
                       ELSE gate_ref
        /\ gate_scen' = [gate_scen EXCEPT
                            ![pair] = ScenStep(@, content_hash, debounce_time, r.ret)]
        /\ UNCHANGED now

\* no pure function is being applied
FnIdle ==
    /\ fn_in = << >>
    /\ fn_out = << >>

DedupTick ==
    /\ Tick(MaxGateTime)
    /\ UNCHANGED <<dedupVars, gateVars, notDedup>>

DedupCall ==
    \E k \in AlertKinds, c \in CameraIds, h \in Hashes, d \in Debounces :
        /\ GateCall(k, c, h, d)
        /\ UNCHANGED notDedup

InitDedup ==
    /\ now = 0
    /\ DedupInit
    /\ GateInit
    /\ FnIdle
    /\ HubInit
    /\ HandlerIdle
    /\ WorkerIdle

NextDedup ==
    \/ DedupTick
    \/ DedupCall

SpecDedup == InitDedup /\ [][NextDedup]_vars

----------------------------------------------------------------------------
(* Claims on the gate, under SpecDedup *)

\* C1: a call of _should_send_alert returns False exactly when a hash is
\* recorded for its (kind, camera), that hash is the new one and less than
\* debounce_time has passed since the pair's last send; a call that returns
\* True leaves the new hash and the time of the call stored under the key.
C1_GateContract ==
    gate_last.made =>
        LET c == gate_last
            key == AlertKey(c.kind, c.camera)
            repeat == /\ c.stored.has
                      /\ c.stored.hash = c.hash
                      /\ c.time - c.stored.time < c.debounce
        IN  /\ c.ret = ~repeat
            /\ c.ret => /\ key \in DOMAIN alert_content_hash
                        /\ key \in DOMAIN alert_last_sent
                        /\ alert_content_hash[key] = c.hash
                        /\ alert_last_sent[key] = c.time

\* a repeat inside the window was suppressed
C1_Witness ==
    /\ gate_last.made
    /\ ~gate_last.ret
    /\ gate_last.stored.has
    /\ gate_last.time > gate_last.stored.time

\* C2: on a pair with no record, a first call with h, a second call with h
\* less than debounce after the first and a third call with h at least
\* debounce after the first return True, False, True.
C2_TrueFalseTrue ==
    \A p \in Pairs :
        gate_scen[p].ok =>
            gate_scen[p].rets = SubSeq(<<TRUE, FALSE, TRUE>>, 1, gate_scen[p].n)

\* the three calls were made on one pair
C2_Witness ==
    \E p \in Pairs : gate_scen[p].ok /\ gate_scen[p].n = 3

\* C3: a call whose hash differs from the one stored for its pair returns
\* True whatever the elapsed time and the window restarts at that call; calls
\* that alternate between different hashes on one pair are never suppressed.
C3_DifferentHashResends ==
    /\ (gate_last.made /\ gate_last.stored.has /\ gate_last.stored.hash # gate_last.hash) =>
           LET key == AlertKey(gate_last.kind, gate_last.camera)
           IN  /\ gate_last.ret
               /\ key \in DOMAIN alert_last_sent
               /\ alert_last_sent[key] = gate_last.time
               /\ alert_content_hash[key] = gate_last.hash
    /\ \A p \in Pairs : gate_scen[p].alt => ~gate_scen[p].supp

\* three alternating calls on one pair, the last one inside the window of
\* the one before it
C3_Witness ==
    /\ gate_last.made
    /\ gate_last.stored.has
    /\ gate_last.stored.hash # gate_last.hash
    /\ gate_last.time - gate_last.stored.time < gate_last.debounce
    /\ gate_last.time > gate_last.stored.time
    /\ LET s == gate_scen[<<gate_last.kind, gate_last.camera>>]
       IN  s.alt /\ s.calls = 3

\* C36: a call of _should_send_alert that returns False leaves both tables
\* as they were; so an alert repeated with the same content on one key is
\* let through exactly when its debounce interval has passed since the
\* last call that was let through, however many suppressed calls fell in
\* between.
C36_SuppressedCallChangesNothing ==
    /\ [][(gate_calls' # gate_calls /\ ~gate_last'.ret) =>
              UNCHANGED <<alert_content_hash, alert_last_sent>>]_vars
    /\ [](gate_last.made /\ gate_last.stored.has
              /\ gate_last.stored.hash = gate_last.hash
           => gate_last.ret =
                  (gate_last.time - gate_last.stored.time >= gate_last.debounce))

\* a repeat was let through a full interval after the last send although a
\* suppressed repeat had been made in between
C36_Witness ==
    /\ gate_last.made
    /\ gate_last.ret
    /\ gate_last.stored.has
    /\ gate_last.stored.hash = gate_last.hash
    /\ gate_last.time - gate_last.stored.time = gate_last.debounce
    /\ gate_scen[<<gate_last.kind, gate_last.camera>>].supp

\* C31: the two deduplication tables always have the same keys, at most one
\* per (alert kind, camera id) pair the gate was called for, hence at most
\* four per camera, however many calls are made.
C31_DedupTablesBounded ==
    LET called == {p \in Pairs : gate_scen[p].calls > 0}
        cameras == {p[2] : p \in called}
    IN  /\ DOMAIN alert_content_hash = DOMAIN alert_last_sent
        /\ DOMAIN alert_content_hash \subseteq {AlertKey(p[1], p[2]) : p \in called}
        /\ Cardinality(DOMAIN alert_content_hash) <= Cardinality(called)
        /\ Cardinality(DOMAIN alert_content_hash) <= 4 * Cardinality(cameras)

\* every call of the behaviour was made on one pair, each with another
\* content than the call before, and the tables hold one key
C31_Witness ==
    /\ gate_calls = MaxCalls
    /\ \E p \in Pairs : gate_scen[p].calls = MaxCalls /\ gate_scen[p].alt
    /\ Cardinality(DOMAIN alert_content_hash) = 1
    /\ Cardinality(DOMAIN alert_last_sent) = 1

----------------------------------------------------------------------------
(* FrameProcessor._calculate_density_level *)

DensityLevels == <<"NONE", "LOW", "MEDIUM", "HIGH", "CRITICAL">>

\* the place of a tier in NONE < LOW < MEDIUM < HIGH < CRITICAL
Rank(level) == CHOOSE i \in 1..Len(DensityLevels) : DensityLevels[i] = level

\* count and threshold are integers: count < threshold * 0.5 is
\* 2 * count < threshold and count < threshold * 0.8 is
\* 5 * count < 4 * threshold (the float products are exact enough never to
\* cross an integer)
DensityLevelInclusive(count, threshold) ==
    IF count = 0 THEN "NONE"
    ELSE IF 2 * count <= threshold THEN "LOW"
    ELSE IF 5 * count <= 4 * threshold THEN "MEDIUM"
    ELSE IF count <= threshold THEN "HIGH"
    ELSE "CRITICAL"

_calculate_density_level(count, threshold) ==
    IF count = 0 THEN "NONE"
    ELSE IF 2 * count < threshold THEN "LOW"
    ELSE IF 5 * count < 4 * threshold THEN "MEDIUM"
    ELSE IF count < threshold THEN "HIGH"
    ELSE "CRITICAL"

----------------------------------------------------------------------------
(* SpecDensity: the tier of every count under every threshold *)

Thresholds == 1..MaxThreshold
Counts == 0..MaxCount

\* a FrameProcessor is built with its threshold; no frame was analyzed yet
InitDensity ==
    /\ now = 0
    /\ DedupInit
    /\ GateInit
    /\ HubInit
    /\ HandlerIdle
    /\ WorkerIdle
    /\ \E t \in Thresholds : fn_in = [threshold |-> t, count |-> 0]
    /\ fn_out = << >>

\* line 561: the tier of a frame with `count` detections
DensityApply ==
    \E count \in Counts :
        /\ fn_in' = [fn_in EXCEPT !.count = count]
        /\ fn_out' = <<_calculate_density_level(count, fn_in.threshold)>>
        /\ UNCHANGED notFn

NextDensity == DensityApply

SpecDensity == InitDensity /\ [][NextDensity]_vars

\* C10: for every count c >= 0 and threshold t > 0 the tier is NONE if c = 0,
\* else LOW if c < 0.5t, else MEDIUM if c < 0.8t, else HIGH if c < t, else
\* CRITICAL; it is defined for every (c, t) and never goes down when c grows
\* with t fixed.
C10_DensityTier ==
    fn_out # << >> =>
        LET c == fn_in.count
            t == fn_in.threshold
            level == fn_out[1]
        IN  /\ \E i \in 1..Len(DensityLevels) : DensityLevels[i] = level
            /\ (level = "NONE") = (c = 0)
            /\ (level = "LOW") = (c > 0 /\ 2 * c < t)
            /\ (level = "MEDIUM") = (c > 0 /\ 2 * c >= t /\ 5 * c < 4 * t)
            /\ (level = "HIGH") = (c > 0 /\ 5 * c >= 4 * t /\ c < t)
            /\ (level = "CRITICAL") = (c > 0 /\ c >= t)
            /\ \A smaller \in 0..c :
                   Rank(_calculate_density_level(smaller, t)) <= Rank(level)

\* a count exactly at 0.8 of the threshold is HIGH
C10_Witness ==
    /\ fn_out = <<"HIGH">>
    /\ 5 * fn_in.count = 4 * fn_in.threshold

----------------------------------------------------------------------------
(* _create_content_hash *)

\* A payload is a dict: its items in insertion order, no key twice.  A value
\* is a Python int or str, written [type, text].

\* the keys of the payloads hashed on their own, in the order Python's
\* string comparison gives them
KeyOrder ==
    <<"anomaly_type", "camera_id", "change", "confidence", "current_count",
      "density_level", "heatmap_data", "id", "location", "message",
      "people_count", "previous_count", "severity", "threshold",
      "threshold_status", "timestamp", "type", "zone_id">>

Keys == {KeyOrder[i] : i \in DOMAIN KeyOrder}

\* the keys of the payloads that are hashed side by side
HashKeys == {"camera_id", "timestamp", "type"}

\* json.dumps of a value: an int as its digits, a str between quotes
JsonValue(value) ==
    IF value.type = "str" THEN <<"\"", value.text, "\"">> ELSE <<value.text>>

SortByKeyNot(data) == data

\* sorted(data.items()) of a dict, whose keys are distinct: the keys that
\* are present, in ascending order, each with its value
SortByKey(data) ==
    LET keys == SelectSeq(KeyOrder, LAMBDA k : \E i \in DOMAIN data : data[i][1] = k)
    IN  [n \in DOMAIN keys |->
            data[CHOOSE i \in DOMAIN data : data[i][1] = keys[n]]]

\* json.dumps(data, sort_keys=True): each key with its encoded value, keys
\* ascending
JsonDumpsSorted(data) ==
    LET items == SortByKey(data)
    IN  [i \in DOMAIN items |-> <<items[i][1], JsonValue(items[i][2])>>]

\* hashlib.md5(...).hexdigest(), taken to be free of collisions: the digest
\* stands for the text it was computed from
Md5(text) == <<"md5", text>>

_create_content_hash(data) == Md5(JsonDumpsSorted(data))

----------------------------------------------------------------------------
(* SpecHash: two payloads hashed side by side *)

PyValues == {[type |-> "int", text |-> "1"],
             [type |-> "str", text |-> "1"],
             [type |-> "str", text |-> "cam1"]}

Payloads ==
    {d \in UNION {[1..n -> HashKeys \X PyValues] : n \in 0..MaxPayloadLen} :
        \A i, j \in DOMAIN d : d[i][1] = d[j][1] => i = j}

\* two payloads were built
InitHash ==
    /\ now = 0
    /\ DedupInit
    /\ GateInit
    /\ HubInit
    /\ HandlerIdle
    /\ WorkerIdle
    /\ fn_in \in Payloads \X Payloads
    /\ fn_out = << >>

\* both are hashed
HashApply ==
    /\ fn_out = << >>
    /\ fn_out' = <<[text |-> JsonDumpsSorted(fn_in[1]),
                    hash |-> _create_content_hash(fn_in[1])],
                   [text |-> JsonDumpsSorted(fn_in[2]),
                    hash |-> _create_content_hash(fn_in[2])]>>
    /\ UNCHANGED <<notFn, fn_in>>

NextHash == HashApply

SpecHash == InitHash /\ [][NextHash]_vars

Items(d) == {d[i] : i \in DOMAIN d}

\* C5: two payloads holding the same key/value pairs, whatever the order
\* they were built in, get the same hash; two payloads that give different
\* values to a key get different serializations.
C5_OrderIndependent ==
    fn_out # << >> =>
        LET a == fn_in[1]
            b == fn_in[2]
        IN  /\ Items(a) = Items(b) => fn_out[1].hash = fn_out[2].hash
            /\ (\E x \in Items(a), y \in Items(b) : x[1] = y[1] /\ x[2] # y[2])
                   => fn_out[1].text # fn_out[2].text

\* the same three items in two different orders
C5_Witness ==
    /\ fn_out # << >>
    /\ Len(fn_in[1]) = 3
    /\ fn_in[1] # fn_in[2]
    /\ Items(fn_in[1]) = Items(fn_in[2])
    /\ fn_out[1].hash = fn_out[2].hash

----------------------------------------------------------------------------
(* SpecBroadcast: one publisher; the endpoints add and drop connections    *)
(* between its calls, not during them                                      *)

InitBroadcast ==
    /\ now = 0
    /\ DedupInit
    /\ GateInit
    /\ FnIdle
    /\ HubInit
    /\ HandlerIdle
    /\ WorkerIdle

BcSubscribe ==
    \E ch \in Channels, ws \in WebSockets :
        /\ NoCall
        /\ WsSubscribe(ch[1], ch[2], ws)
        /\ bc' = [bc EXCEPT !.pc = "idle"]
        /\ UNCHANGED notBroadcast

BcDisconnect ==
    \E ch \in Channels, ws \in WebSockets :
        /\ NoCall
        /\ WsDisconnect(ch[1], ch[2], ws)
        /\ bc' = [bc EXCEPT !.pc = "idle"]
        /\ UNCHANGED notBroadcast

BcPublishAlert == PublishAlert /\ UNCHANGED notBroadcast

BcPublishLiveMap == PublishLiveMap /\ UNCHANGED notBroadcast

BcPublishFrame ==
    \E c \in CameraIds : PublishFrame(c) /\ UNCHANGED notBroadcast

BcSend ==
    \E ws \in WebSockets, ok \in BOOLEAN :
        BroadcastSend(ws, ok) /\ UNCHANGED notBroadcast

BcCleanup == BroadcastCleanup /\ UNCHANGED notBroadcast

NextBroadcast ==
    \/ BcSubscribe
    \/ BcDisconnect
    \/ BcPublishAlert
    \/ BcPublishLiveMap
    \/ BcPublishFrame
    \/ BcSend
    \/ BcCleanup

SpecBroadcast == InitBroadcast /\ [][NextBroadcast]_vars

\* the set the call of bc works on, as it is now
BcSet == ChannelSet(websocket_connections, bc.channel, bc.camera_id)

\* C6: in one _broadcast_to_websockets call every connection of the snapshot
\* gets exactly one send attempt whatever happens to the other sends; the
\* channel's set is not modified while the iteration runs; when the call
\* returns, the connections whose send failed are out of the set and those
\* whose send succeeded are still in it.
C6_PartialFailure ==
    /\ bc.pc \in {"send", "cleanup"} =>
           /\ BcSet = bc.connections
           /\ \A ws \in bc.connections :
                  bc.attempts[ws] = (IF ws \in bc.todo THEN 0 ELSE 1)
    /\ bc.pc \in {"cleanup", "returned"} =>
           /\ \A ws \in bc.connections : bc.attempts[ws] = 1
           /\ bc.delivered \cup bc.failed = bc.connections
           /\ bc.delivered \cap bc.failed = {}
    /\ bc.pc = "returned" =>
           /\ bc.failed \cap BcSet = {}
           /\ bc.delivered \subseteq BcSet

\* a call has returned in which a send failed and a send succeeded
C6_Witness ==
    /\ bc.pc = "returned"
    /\ bc.failed # {}
    /\ bc.delivered # {}

\* C7: publishing to a channel with no subscriber changes no state, sends
\* nothing and serializes nothing; a live frame is encoded only if the
\* camera's frame channel had a subscriber when the worker looked.
C7_EmptyPublishNoOp ==
    /\ (bc.pc = "returned" /\ bc.connections = {}) =>
           /\ ~bc.serialized
           /\ ~bc.encoded
           /\ websocket_connections = bc.before
           /\ bc.delivered = {} /\ bc.failed = {}
           /\ bc.attempts = << >>
    /\ bc.encoded => FramesOf(bc.before, bc.camera_id) # {}

\* an alert was published with nobody on the alerts channel while another
\* channel had a subscriber
C7_Witness ==
    /\ bc.pc = "returned"
    /\ bc.channel = "alerts"
    /\ bc.connections = {}
    /\ websocket_connections.live_map # {}

----------------------------------------------------------------------------
(* Python values inside the message dicts: a type and the text json.dumps  *)
(* writes for the value                                                    *)

IntValue(n) == [type |-> "int", text |-> ToString(n)]

StrValue(s) == [type |-> "str", text |-> s]

FloatValue(s) == [type |-> "float", text |-> s]

NullValue == [type |-> "null", text |-> "null"]

ListValue(s) == [type |-> "list", text |-> s]

DictValue(s) == [type |-> "dict", text |-> s]

\* a tuple or a list of numpy.float32 (lines 548, 661): json.dumps raises
\* TypeError on it
Float32sValue(s) == [type |-> "float32s", text |-> s]

\* json.dumps(data, sort_keys=True) of line 2016 raises
HashRaises(data) == \E i \in DOMAIN data : data[i][2].type = "float32s"

\* a token sequence as the one string it stands for
RECURSIVE Text(_)
Text(tokens) ==
    IF tokens = << >> THEN "" ELSE Head(tokens) \o Text(Tail(tokens))

\* datetime.fromtimestamp(t).isoformat() + "Z"
IsoFormat(t) == "T" \o ToString(t) \o "Z"

\* self.zone_id inside a message
ZoneValue(zone_id) == IF zone_id = None THEN NullValue ELSE StrValue(zone_id)

----------------------------------------------------------------------------
(* FrameProcessor: the analysis of a frame                                 *)

\* CONFIG['processing']['heatmap_update_interval']
heatmap_update_interval == 2

\* the debounce_time arguments of lines 719, 739, 761 and 778
LiveCountDebounce == 2
ThresholdDebounce == 10
AnomalyDebounce   == 15
HeatmapDebounce   == 5

\* the model's clock counts from the start of the process and time.time()
\* from 1970: the literal 0 of line 436 is this far in the past
Epoch == 0 - 1000000

\* movement_tracker = deque(maxlen=10)
TrackerLen == 10

\* FrameProcessor.__init__; last_zone_count is an attribute only once line
\* 696 has run; frame_time is the time of the last frame analyzed
NewProcessor(camera_id, threshold, zone_id, zs) ==
    [camera_id |-> camera_id,
     threshold |-> threshold,
     zone_id |-> zone_id,
     last_count |-> 0,
     last_heatmap_update |-> Epoch,
     movement_tracker |-> << >>,
     heatmap_generator |->
         IF zone_id # None /\ zone_id \in DOMAIN zs
         THEN [has |-> TRUE, zone_capacity |-> zs[zone_id].capacity]
         ELSE [has |-> FALSE, zone_capacity |-> 0],
     last_zone_count |-> [has |-> FALSE, count |-> 0],
     frame_time |-> 0 - 1]

\* lines 237-247 with the bounds exclusive
HeatmapDensityLevelExclusive(occupancy_percentage) ==
    IF occupancy_percentage > 90 THEN "CRITICAL"
    ELSE IF occupancy_percentage > 70 THEN "HIGH"
    ELSE IF occupancy_percentage > 40 THEN "MEDIUM"
    ELSE IF occupancy_percentage > 10 THEN "LOW"
    ELSE "NONE"

\* HeatmapGenerator._calculate_density_level, on whole percents
HeatmapDensityLevel(occupancy_percentage) ==
    IF occupancy_percentage >= 90 THEN "CRITICAL"
    ELSE IF occupancy_percentage >= 70 THEN "HIGH"
    ELSE IF occupancy_percentage >= 40 THEN "MEDIUM"
    ELSE IF occupancy_percentage >= 10 THEN "LOW"
    ELSE "NONE"

\* a heatmap dict: what json.dumps writes of it (text) and the fields the
\* empty-frame rule speaks of
HeatmapDict(text, hotspots, total_people, current_density, max_density) ==
    [type |-> "dict", text |-> text, hotspots |-> hotspots,
     total_people |-> total_people, current_density |-> current_density,
     max_density |-> max_density]

\* HeatmapGenerator._empty_heatmap
_empty_heatmap(t) ==
    HeatmapDict("{hotspots: [], total_people: 0, current_density: 0.0, "
                    \o "max_density: 0.0, density_percentage: 0.0, "
                    \o "last_update: " \o IsoFormat(t) \o "}",
                << >>, 0, "0.0", "0.0")

\* lines 183-234, what generate_heatmap builds from the grid: the hotspots
\* and the two densities come from the smoothed grid and stand as written
HeatmapOfGrid(people_count, zone_capacity, t) ==
    LET pct == (people_count * 100) \div zone_capacity
    IN  HeatmapDict("{hotspots: grid, total_people: " \o ToString(people_count)
                        \o ", current_density: avg, max_density: max"
                        \o ", density_percentage: " \o ToString(pct)
                        \o ", density_level: " \o HeatmapDensityLevel(pct)
                        \o ", last_update: " \o IsoFormat(t) \o "}",
                    <<"grid">>, people_count, "avg", "max")

\* generate_heatmap without the early return of lines 180-181
GenerateHeatmapOfGrid(people_count, zone_capacity, t) ==
    HeatmapOfGrid(people_count, zone_capacity, t)

\* HeatmapGenerator.generate_heatmap, for a capacity other than 0
generate_heatmap(people_count, zone_capacity, t) ==
    IF people_count = 0 THEN _empty_heatmap(t)
    ELSE HeatmapOfGrid(people_count, zone_capacity, t)

\* line 209 divides by the capacity
HeatmapRaises(people_count, zone_capacity) ==
    people_count # 0 /\ zone_capacity = 0

\* the anomaly dicts of _detect_anomalies
FallenPerson ==
    [type |-> "FALLEN_PERSON", severity |-> "HIGH",
     location |-> Float32sValue("(320.0, 240.0)"),
     confidence |-> FloatValue("0.9"),
     message |-> "Possible fallen person detected"]

Stampede ==
    [type |-> "STAMPEDE", severity |-> "CRITICAL",
     location |-> ListValue("[640, 360]"),
     confidence |-> FloatValue("0.8"),
     message |-> "Possible stampede detected - avg movement: 60.0px"]

HighDensityCluster(n) ==
    [type |-> "HIGH_DENSITY_CLUSTER", severity |-> "MEDIUM",
     location |-> Float32sValue("[320.0, 240.0]"),
     confidence |-> FloatValue("0.7"),
     message |-> "High density cluster detected - " \o ToString(n)
                     \o " people in close proximity"]

\* the stampede test taken against the last frame analyzed
StampedePossibleLast(movement_tracker, people_count) ==
    /\ Len(movement_tracker) >= 3
    /\ people_count > 5
    /\ movement_tracker[Len(movement_tracker)] > 5

\* the stampede test run once two sets are stored
StampedePossibleFromTwo(movement_tracker, people_count) ==
    /\ Len(movement_tracker) >= 2
    /\ people_count > 5
    /\ movement_tracker[Len(movement_tracker) - 1] > 5

\* the stampede test looks at the frame before the last one analyzed
StampedePossible(movement_tracker, people_count) ==
    /\ Len(movement_tracker) >= 3
    /\ people_count > 5
    /\ movement_tracker[Len(movement_tracker) - 1] > 5

\* line 651 with ten detections taken as enough
ClusterPossibleAtTen(people_count) == people_count >= 10

\* line 651
ClusterPossible(people_count) == people_count > 10

\* _detect_anomalies. Of the geometry of the detections the model keeps
\* three facts: how many boxes are flatter than the fallen-person ratio,
\* whether the mean movement exceeds the stampede threshold, whether the
\* mean pairwise distance is under 50 px.
_detect_anomalies(movement_tracker, people_count, fallen, fast, close) ==
    [i \in 1..fallen |-> FallenPerson]
        \o (IF StampedePossible(movement_tracker, people_count) /\ fast
            THEN <<Stampede>> ELSE << >>)
        \o (IF ClusterPossible(people_count) /\ close
            THEN <<HighDensityCluster(people_count)>> ELSE << >>)

\* movement_tracker.append on a deque that refuses the new set when full
TrackerAppendKeepOldest(movement_tracker, people_count) ==
    IF Len(movement_tracker) >= TrackerLen THEN movement_tracker
    ELSE Append(movement_tracker, people_count)

\* movement_tracker.append on a deque(maxlen=10)
TrackerAppend(movement_tracker, people_count) ==
    LET t == Append(movement_tracker, people_count)
    IN  IF Len(t) > TrackerLen THEN Tail(t) ELSE t

\* heatmap_update_interval taken as reached, not exceeded
HeatmapDueInclusive(p, current_time) ==
    /\ p.heatmap_generator.has
    /\ current_time - p.last_heatmap_update >= heatmap_update_interval

HeatmapDue(p, current_time) ==
    /\ p.heatmap_generator.has
    /\ current_time - p.last_heatmap_update > heatmap_update_interval

\* _analyze_frame raises: the model call (yolo_ok false) or the heatmap
AnalyzeRaises(p, current_time, people_count, yolo_ok) ==
    \/ ~yolo_ok
    \/ /\ HeatmapDue(p, current_time)
       /\ HeatmapRaises(people_count, p.heatmap_generator.zone_capacity)

\* _analyze_frame when it returns: the FrameAnalysis
_analyze_frame(p, current_time, people_count, fallen, fast, close) ==
    [timestamp |-> current_time,
     people_count |-> people_count,
     density_level |-> _calculate_density_level(people_count, p.threshold),
     anomalies |-> _detect_anomalies(p.movement_tracker, people_count,
                                     fallen, fast, close),
     heatmap_data |->
         IF HeatmapDue(p, current_time)
         THEN [has |-> TRUE,
               dict |-> generate_heatmap(people_count,
                            p.heatmap_generator.zone_capacity, current_time)]
         ELSE [has |-> FALSE, dict |-> NullValue]]

\* and the processor it leaves (lines 571, 574-578)
AfterAnalyze(p, current_time, people_count) ==
    [p EXCEPT
        !.last_heatmap_update =
            IF HeatmapDue(p, current_time) THEN current_time ELSE @,
        !.movement_tracker = TrackerAppend(@, people_count)]

----------------------------------------------------------------------------
(* FrameProcessor._handle_analysis                                         *)
(*                                                                         *)
(* The handler is a chain of stages over a world record W: the clock       *)
(* reading (time), the deduplication tables (tabs), the subscriber sets    *)
(* (conns), state.crowd_flow_data (flow), state.zones (zones), the         *)
(* processor (p), the alerts that reached a subscriber (sent), uuid4's     *)
(* draws still to use (hexes) and whether an exception has ended the       *)
(* handler (raised).                                                       *)

\* _broadcast_to_websockets run to its end: the sends to the sockets in
\* `failing` raise. An alert that at least one subscriber was sent is
\* recorded with what it says apart from "id" and "timestamp".
Broadcast(W, channel, camera_id, message, failing) ==
    LET connections == ChannelSet(W.conns, channel, camera_id)
        dead_connections == connections \cap failing
        reg == IF channel = "frames"
               THEN WithChannelSet(W.conns, channel, camera_id, connections)
               ELSE W.conns
    IN  IF connections = {} THEN [W EXCEPT !.conns = reg]
        ELSE [W EXCEPT
                 !.conns = WithChannelSet(reg, channel, camera_id,
                               connections \ dead_connections),
                 !.sent = IF channel = "alerts"
                          THEN @ \cup {[message |-> message,
                                        time |-> W.time,
                                        to |-> connections \ dead_connections]}
                          ELSE @]

\* lines 718-720, 738-740, 760-762, 777-779: the message is hashed, the
\* gate asked, and the alert broadcast if the gate says so
Emit(W, alert_type, message, debounce_time, failing) ==
    IF HashRaises(message) THEN [W EXCEPT !.raised = TRUE]
    ELSE LET g == _should_send_alert(W.tabs, alert_type, W.p.camera_id,
                      _create_content_hash(message), debounce_time, W.time)
         IN  IF g.ret
             THEN Broadcast([W EXCEPT !.tabs = g.tabs], "alerts", << >>,
                            message, failing)
             ELSE W

\* f"alert_{int(current_time * 1000)}_{uuid.uuid4().hex[:8]}"
AlertId(current_time, hex) ==
    "alert_" \o ToString(current_time * 1000) \o "_" \o hex

\* lines 704-715
CountUpdate(p, a) ==
    <<  <<"type", StrValue("LIVE_COUNT_UPDATE")>>,
        <<"timestamp", StrValue(IsoFormat(a.timestamp))>>,
        <<"camera_id", StrValue(Text(p.camera_id))>>,
        <<"zone_id", ZoneValue(p.zone_id)>>,
        <<"current_count", IntValue(a.people_count)>>,
        <<"previous_count", IntValue(p.last_count)>>,
        <<"change", IntValue(a.people_count - p.last_count)>>,
        <<"density_level", StrValue(a.density_level)>>,
        <<"threshold", IntValue(p.threshold)>>,
        <<"threshold_status",
          StrValue(IF a.people_count > p.threshold THEN "EXCEEDED" ELSE "NORMAL")>>  >>

\* line 729: people_count > threshold * 1.2
BreachSeverity(people_count, threshold) ==
    IF 5 * people_count > 6 * threshold THEN "HIGH" ELSE "MEDIUM"

\* lines 724-735
ThresholdAlert(p, a, current_time, hex) ==
    <<  <<"type", StrValue("THRESHOLD_BREACH")>>,
        <<"id", StrValue(AlertId(current_time, hex))>>,
        <<"camera_id", StrValue(Text(p.camera_id))>>,
        <<"zone_id", ZoneValue(p.zone_id)>>,
        <<"severity", StrValue(BreachSeverity(a.people_count, p.threshold))>>,
        <<"message", StrValue("People count (" \o ToString(a.people_count)
              \o ") exceeds threshold (" \o ToString(p.threshold) \o ")")>>,
        <<"people_count", IntValue(a.people_count)>>,
        <<"threshold", IntValue(p.threshold)>>,
        <<"density_level", StrValue(a.density_level)>>,
        <<"timestamp", StrValue(IsoFormat(a.timestamp))>>  >>

\* lines 746-757
AnomalyAlert(p, a, anomaly, current_time, hex) ==
    <<  <<"type", StrValue("ANOMALY_ALERT")>>,
        <<"id", StrValue(AlertId(current_time, hex))>>,
        <<"camera_id", StrValue(Text(p.camera_id))>>,
        <<"zone_id", ZoneValue(p.zone_id)>>,
        <<"anomaly_type", StrValue(anomaly.type)>>,
        <<"severity", StrValue(anomaly.severity)>>,
        <<"message", StrValue(anomaly.message)>>,
        <<"location", anomaly.location>>,
        <<"confidence", anomaly.confidence>>,
        <<"timestamp", StrValue(IsoFormat(a.timestamp))>>  >>

\* lines 766-774
HeatmapAlert(p, a) ==
    <<  <<"type", StrValue("HEATMAP_ALERT")>>,
        <<"camera_id", StrValue(Text(p.camera_id))>>,
        <<"zone_id", ZoneValue(p.zone_id)>>,
        <<"severity",
          StrValue(IF a.people_count > p.threshold THEN "HIGH" ELSE "MEDIUM")>>,
        <<"message", StrValue("Crowd density heatmap update - "
              \o ToString(a.people_count) \o " people detected")>>,
        <<"heatmap_data", a.heatmap_data.dict>>,
        <<"timestamp", StrValue(IsoFormat(a.timestamp))>>  >>

\* lines 689-695
Trend(last_zone_count, people_count, trend) ==
    IF ~last_zone_count.has THEN trend
    ELSE IF people_count > last_zone_count.count THEN "increasing"
    ELSE IF people_count < last_zone_count.count THEN "decreasing"
    ELSE "stable"

\* lines 672-699: the zone's live data; line 677 divides by the capacity
HandleZone(W, a, failing) ==
    LET z == W.p.zone_id
    IN  IF ~(z # None /\ z \in DOMAIN W.flow) THEN W
        ELSE IF W.flow[z].capacity = 0
        THEN [W EXCEPT !.raised = TRUE,
                       !.flow[z].people_count = a.people_count,
                       !.flow[z].current_occupancy = a.people_count]
        ELSE LET W1 ==
                 [W EXCEPT
                     !.flow[z] =
                         [@ EXCEPT
                             !.people_count = a.people_count,
                             !.current_occupancy = a.people_count,
                             !.occupancy_percentage =
                                 (a.people_count * 100) \div W.flow[z].capacity,
                             !.density_level = a.density_level,
                             !.last_update = IsoFormat(a.timestamp),
                             !.trend = Trend(W.p.last_zone_count,
                                             a.people_count, @)],
                     !.zones =
                         IF a.heatmap_data.has /\ z \in DOMAIN W.zones
                         THEN [@ EXCEPT
                                  ![z].heatmap_data = a.heatmap_data.dict,
                                  ![z].current_occupancy = a.people_count]
                         ELSE @,
                     !.p.last_zone_count =
                         [has |-> TRUE, count |-> a.people_count]]
             IN  Broadcast(W1, "live_map", << >>, << >>, failing)

\* lines 701-742
HandleCount(W, a, failing) ==
    IF W.raised \/ a.people_count = W.p.last_count THEN W
    ELSE LET W1 == Emit(W, LIVE_COUNT_UPDATE, CountUpdate(W.p, a),
                        LiveCountDebounce, failing)
             W2 == IF a.people_count > W.p.threshold
                   THEN Emit([W1 EXCEPT !.hexes = Tail(@)], THRESHOLD_BREACH,
                             ThresholdAlert(W.p, a, W.time, Head(W1.hexes)),
                             ThresholdDebounce, failing)
                   ELSE W1
         IN  [W2 EXCEPT !.p.last_count = a.people_count]

\* lines 745-762: the loop over the anomalies, ended by an exception
RECURSIVE HandleAnomalies(_, _, _, _)
HandleAnomalies(W, a, anomalies, failing) ==
    IF W.raised \/ anomalies = << >> THEN W
    ELSE HandleAnomalies(
             Emit([W EXCEPT !.hexes = Tail(@)], ANOMALY_ALERT,
                  AnomalyAlert(W.p, a, Head(anomalies), W.time, Head(W.hexes)),
                  AnomalyDebounce, failing),
             a, Tail(anomalies), failing)

\* lines 765-779
HandleHeatmap(W, a, failing) ==
    IF W.raised \/ ~a.heatmap_data.has THEN W
    ELSE Emit(W, HEATMAP_ALERT, HeatmapAlert(W.p, a), HeatmapDebounce, failing)

\* lines 782-803
HandleLiveFrame(W, failing) ==
    IF W.raised THEN W
    ELSE IF /\ W.p.camera_id \in DOMAIN W.conns.frames
            /\ Cardinality(W.conns.frames[W.p.camera_id]) > 0
    THEN Broadcast(W, "frames", W.p.camera_id, << >>, failing)
    ELSE W

_handle_analysis(W, a, failing) ==
    HandleLiveFrame(
        HandleHeatmap(
            HandleAnomalies(
                HandleCount(HandleZone(W, a, failing), a, failing),
                a, a.anomalies, failing),
            a, failing),
        failing)

\* the uuid4 draws a frame can use: one for a threshold alert, one for each
\* anomaly
IdsNeeded(p, a) ==
    (IF a.people_count # p.last_count /\ a.people_count > p.threshold
     THEN 1 ELSE 0) + Len(a.anomalies)

----------------------------------------------------------------------------
(* SpecHandle: a source worker's frames, each analyzed and handled in one  *)
(* step, while subscribers come and go. The frames of one worker are       *)
(* analyzed at strictly increasing clock readings.                         *)

\* the worker's camera, its threshold, the zone it may be bound to
HandleCameras == {<<"cam1">>}
\* the thresholds a camera is started with (lines 1194, 1249: any int is
\* taken): below zero, between the counts of the frames, above them
HandleThresholds == {0 - 1, 5, 20}
ZoneIds == {"zone1"}
ZoneCapacities == {10}

\* the people counts of the frames: none, above the threshold, above 1.2
\* times the threshold and above the cluster test's 10
FrameCounts == {0, 6, 11}

\* uuid.uuid4().hex[:8]: the draws of one frame are taken to differ
Uuids(n) == [i \in 1..n |-> "hex" \o ToString(i)]

\* the WebSocket object of this specification: one client, which
\* subscribes to one of the channels and may leave it
HandleSockets == {1}

\* lines 1616-1650: a zone as create_zone leaves it
NewZone(capacity) ==
    [capacity |-> capacity, current_occupancy |-> 0,
     heatmap_data |-> DictValue("{hotspots: []}")]

NewFlow(capacity) ==
    [capacity |-> capacity, current_occupancy |-> 0, people_count |-> 0,
     occupancy_percentage |-> 0, density_level |-> "LOW",
     trend |-> "stable", last_update |-> IsoFormat(0)]

\* the zones exist; the worker was started for no zone or for a zone
HandlerInit ==
    \E capacity \in ZoneCapacities, zone_id \in {None} \cup ZoneIds,
       threshold \in HandleThresholds :
        /\ zones = [z \in ZoneIds |-> NewZone(capacity)]
        /\ crowd_flow_data = [z \in ZoneIds |-> NewFlow(capacity)]
        /\ fp = [c \in HandleCameras |->
                    NewProcessor(c, threshold, zone_id,
                                 [z \in ZoneIds |-> NewZone(capacity)])]
        /\ alerts_sent = {}
        /\ camera_configs = << >>
        /\ ws_tasks = << >>

InitHandle ==
    /\ now = 0
    /\ DedupInit
    /\ GateInit
    /\ HubInit
    /\ FnIdle
    /\ HandlerInit
    /\ WorkerIdle

\* the channels the handler publishes on
HandleChannels ==
    {<<"alerts", << >> >>, <<"live_map", << >> >>}
        \cup {<<"frames", c>> : c \in HandleCameras}

\* the sockets that are in some channel's set
Subscribed(conns) ==
    conns.alerts \cup conns.live_map \cup conns.instructions
        \cup UNION {conns.frames[c] : c \in DOMAIN conns.frames}

World(p, hexes) ==
    [time |-> now, tabs |-> DedupTables, conns |-> websocket_connections,
     flow |-> crowd_flow_data, zones |-> zones, p |-> p,
     sent |-> alerts_sent, hexes |-> hexes, raised |-> FALSE]

\* what the worker and the zone held when _analyze_frame was called for a
\* frame of people_count detections (kept in fn_in, the analysis in fn_out)
FrameArgs(p, people_count, fallen, yolo_ok) ==
    [camera_id |-> p.camera_id, people_count |-> people_count,
     fallen |-> fallen, yolo_ok |-> yolo_ok,
     threshold |-> p.threshold,
     movement_tracker |-> p.movement_tracker,
     last_count |-> p.last_count,
     last_heatmap_update |-> p.last_heatmap_update,
     heatmap_generator |-> p.heatmap_generator.has,
     zone_id |-> p.zone_id,
     current_occupancy |->
         IF p.zone_id \in DOMAIN crowd_flow_data
         THEN crowd_flow_data[p.zone_id].current_occupancy ELSE 0]

\* lines 503-516, one frame that passed the frame skip: _analyze_frame and
\* _handle_analysis; an exception in either ends the frame's processing and
\* leaves what was done before it
Frame(camera_id, people_count, fallen, fast, close, yolo_ok, failing) ==
    LET p == fp[camera_id]
    IN  /\ now > p.frame_time
        /\ UNCHANGED <<now, gateVars, ws_accepted, bc, workerVars, configVars, taskVars>>
        /\ fn_in' = FrameArgs(p, people_count, fallen, yolo_ok)
        /\ IF AnalyzeRaises(p, now, people_count, yolo_ok)
           THEN /\ fp' = [fp EXCEPT ![camera_id].frame_time = now]
                /\ fn_out' = << >>
                /\ UNCHANGED <<dedupVars, websocket_connections,
                               crowd_flow_data, zones, alerts_sent>>
           ELSE LET a == _analyze_frame(p, now, people_count, fallen, fast, close)
                    p1 == [AfterAnalyze(p, now, people_count)
                               EXCEPT !.frame_time = now]
                IN  \E W \in {_handle_analysis(
                                   World(p1, Uuids(IdsNeeded(p, a))),
                                   a, failing)} :
                        /\ fp' = [fp EXCEPT ![camera_id] = W.p]
                        /\ fn_out' = <<a>>
                        /\ alert_content_hash' = W.tabs.hash
                        /\ alert_last_sent' = W.tabs.last
                        /\ websocket_connections' = W.conns
                        /\ crowd_flow_data' = W.flow
                        /\ zones' = W.zones
                        /\ alerts_sent' = W.sent

HandleFrame ==
    \E camera_id \in HandleCameras, yolo_ok \in BOOLEAN :
        \E people_count \in IF yolo_ok THEN FrameCounts ELSE {0} :
            \E fallen \in 0..(IF people_count > 0 THEN MaxFallen ELSE 0),
               fast \in BOOLEAN,
               close \in IF ClusterPossible(people_count)
                         THEN BOOLEAN ELSE {FALSE},
               failing \in SUBSET Subscribed(websocket_connections) :
                Frame(camera_id, people_count, fallen, fast, close, yolo_ok,
                      failing)

HandleSubscribe ==
    /\ \E ch \in HandleChannels, ws \in HandleSockets :
           WsSubscribe(ch[1], ch[2], ws)
    /\ UNCHANGED <<now, dedupVars, gateVars, fnVars, bc, handleVars, workerVars, configVars, taskVars>>

HandleDisconnect ==
    /\ \E ch \in HandleChannels, ws \in HandleSockets :
           WsDisconnect(ch[1], ch[2], ws)
    /\ UNCHANGED <<now, dedupVars, gateVars, fnVars, bc, handleVars, workerVars, configVars, taskVars>>

HandleTick ==
    /\ Tick(MaxHandleTime)
    /\ UNCHANGED <<dedupVars, gateVars, fnVars, hubVars, handleVars, workerVars, configVars, taskVars>>

NextHandle ==
    \/ HandleFrame
    \/ HandleSubscribe
    \/ HandleDisconnect
    \/ HandleTick

SpecHandle == InitHandle /\ [][NextHandle]_vars

\* what an alert says: the message without its "id" and its "timestamp"
Content(message) ==
    {message[i] : i \in {j \in DOMAIN message :
                            message[j][1] \notin {"id", "timestamp"}}}

Field(message, key) ==
    message[CHOOSE i \in DOMAIN message : message[i][1] = key][2].text

\* the debounce interval of each kind of alert
DebounceOf(type) ==
    IF type = "LIVE_COUNT_UPDATE" THEN LiveCountDebounce
    ELSE IF type = "THRESHOLD_BREACH" THEN ThresholdDebounce
    ELSE IF type = "ANOMALY_ALERT" THEN AnomalyDebounce
    ELSE HeatmapDebounce

\* C4: two alerts that say the same (same kind, camera and content), made
\* from two analyzed frames, are never both broadcast on the alerts channel
\* less than the kind's debounce interval apart.
C4_NoIdenticalAlertWithinDebounce ==
    \A x, y \in alerts_sent :
        (/\ x.time < y.time
         /\ Content(x.message) = Content(y.message))
            => y.time - x.time >= DebounceOf(Field(x.message, "type"))

\* the alerts of the given kind that reached a subscriber
SentOf(type) ==
    {x \in alerts_sent : Field(x.message, "type") = type}

\* C13: a THRESHOLD_BREACH is made for a frame only if its count c is above
\* the camera's threshold t; the frame's tier is then CRITICAL and the
\* severity HIGH if c > 1.2 t, else MEDIUM; and a frame with the count of
\* the frame before it causes no THRESHOLD_BREACH broadcast.
C13_ThresholdBreach ==
    /\ \A x \in SentOf("THRESHOLD_BREACH") :
           \E c \in FrameCounts, t \in HandleThresholds :
               /\ Field(x.message, "people_count") = ToString(c)
               /\ Field(x.message, "threshold") = ToString(t)
               /\ c > t
               /\ Field(x.message, "density_level") = "CRITICAL"
               /\ Field(x.message, "severity")
                      = (IF 5 * c > 6 * t THEN "HIGH" ELSE "MEDIUM")
    /\ (fn_out # << >> /\ fn_in.people_count = fn_in.last_count) =>
           \A x \in SentOf("THRESHOLD_BREACH") : x.time # fn_out[1].timestamp

\* C14: a zone left by a frame with occupancy_percentage >= 90 has the tier
\* CRITICAL recorded, whatever the camera's threshold.
C14_FullZoneIsCritical ==
    \A z \in DOMAIN crowd_flow_data :
        crowd_flow_data[z].occupancy_percentage >= 90 =>
            crowd_flow_data[z].density_level = "CRITICAL"

\* C16: after a frame has updated a zone, the zone's trend says how the new
\* occupancy compares with the occupancy the zone had just before, the first
\* frame of a camera included.
C16_TrendFollowsZoneOccupancy ==
    (fn_out # << >> /\ fn_in.zone_id \in DOMAIN crowd_flow_data) =>
        LET zone_data == crowd_flow_data[fn_in.zone_id]
            before == fn_in.current_occupancy
        IN  zone_data.trend =
                (IF zone_data.current_occupancy > before THEN "increasing"
                 ELSE IF zone_data.current_occupancy < before THEN "decreasing"
                 ELSE "stable")

\* C21: a frame on which the detection call fails is treated as a frame
\* with no detections: an analysis with count 0 is made and handled, so the
\* history gains an entry of 0, last_count is 0 and the worker's zone, if it
\* has one, is at occupancy 0.
C21_FailedDetectionIsEmptyFrame ==
    \A c \in DOMAIN fp :
        (fp[c].frame_time >= 0 /\ ~fn_in.yolo_ok) =>
            /\ fn_out # << >>
            /\ fn_out[1].people_count = 0
            /\ fp[c].movement_tracker
                   = TrackerAppend(fn_in.movement_tracker, 0)
            /\ fp[c].last_count = 0
            /\ fn_in.zone_id \in DOMAIN crowd_flow_data =>
                   crowd_flow_data[fn_in.zone_id].current_occupancy = 0

\* the kinds of message that bear an alert
AlertBearing ==
    {"THRESHOLD_BREACH", "ANOMALY_ALERT", "HEATMAP_ALERT", "EMERGENCY_ALERT",
     "EMERGENCY_INSTRUCTIONS"}

HasField(message, key) == \E i \in DOMAIN message : message[i][1] = key

\* C30: every alert-bearing message that is broadcast carries an id, and no
\* two broadcast alerts carry the same id.
C30_AlertsCarryDistinctIds ==
    /\ \A x \in alerts_sent :
           Field(x.message, "type") \in AlertBearing => HasField(x.message, "id")
    /\ \A x, y \in alerts_sent :
           (/\ x # y
            /\ HasField(x.message, "id")
            /\ HasField(y.message, "id"))
               => Field(x.message, "id") # Field(y.message, "id")

----------------------------------------------------------------------------
(* SpecCount: the frames of one worker without a zone, each analyzed and   *)
(* handled in one step, with a record of what the frames so far were and   *)
(* of the count messages the gate was handed and let through.              *)

\* the thresholds the worker is started with (lines 1194, 1249: any int is
\* taken) and the people counts of its frames
CountThresholds == {0 - 1, 5}
CountCounts == {0, 6, 7}

\* what the frames so far were: how many, the count of the first, whether
\* all had that count and all handlers returned; of the last frame its
\* count, the worker's last_count before it and whether its handler returned
NoFrames ==
    [frames |-> 0, first |-> 0, constant |-> TRUE, completed |-> TRUE,
     people_count |-> 0, last_count |-> 0, returned |-> FALSE]

\* the count messages made so far, and whether the last frame made one
NoCountMessages ==
    [live |-> 0, breach |-> 0, live_now |-> FALSE, breach_now |-> FALSE]

InitCount ==
    /\ now = 0
    /\ DedupInit
    /\ GateInit
    /\ HubInit
    /\ WorkerIdle
    /\ fn_in = NoFrames
    /\ fn_out = NoCountMessages
    /\ zones = << >>
    /\ crowd_flow_data = << >>
    /\ alerts_sent = {}
    /\ camera_configs = << >>
    /\ ws_tasks = << >>
    /\ \E threshold \in CountThresholds :
           fp = [c \in HandleCameras |-> NewProcessor(c, threshold, None, << >>)]

\* lines 719, 739: the message of the given kind was made at this clock
\* reading and handed to the gate, which let it through (its hash holds the
\* frame's timestamp, and no two frames have the same)
MadeNow(W, alert_type) ==
    LET alert_key == AlertKey(alert_type, W.p.camera_id)
    IN  /\ alert_key \in DOMAIN W.tabs.last
        /\ W.tabs.last[alert_key] = W.time

\* lines 503-516 for a frame of people_count detections
CountFrame ==
    \E camera_id \in HandleCameras, people_count \in CountCounts :
        LET p == fp[camera_id]
            a == _analyze_frame(p, now, people_count, 0, FALSE, FALSE)
            p1 == [AfterAnalyze(p, now, people_count) EXCEPT !.frame_time = now]
        IN  /\ now > p.frame_time
            /\ ~AnalyzeRaises(p, now, people_count, TRUE)
            /\ \E W \in {_handle_analysis(World(p1, Uuids(IdsNeeded(p, a))),
                                           a, {})} :
                   /\ fp' = [fp EXCEPT ![camera_id] = W.p]
                   /\ alert_content_hash' = W.tabs.hash
                   /\ alert_last_sent' = W.tabs.last
                   /\ websocket_connections' = W.conns
                   /\ crowd_flow_data' = W.flow
                   /\ zones' = W.zones
                   /\ alerts_sent' = W.sent
                   /\ fn_in' =
                          [frames |-> fn_in.frames + 1,
                           first |-> IF fn_in.frames = 0 THEN people_count
                                     ELSE fn_in.first,
                           constant |-> /\ fn_in.constant
                                        /\ \/ fn_in.frames = 0
                                           \/ people_count = fn_in.first,
                           completed |-> fn_in.completed /\ ~W.raised,
                           people_count |-> people_count,
                           last_count |-> p.last_count,
                           returned |-> ~W.raised]
                   /\ fn_out' =
                          [live |-> fn_out.live
                               + (IF MadeNow(W, LIVE_COUNT_UPDATE) THEN 1 ELSE 0),
                           breach |-> fn_out.breach
                               + (IF MadeNow(W, THRESHOLD_BREACH) THEN 1 ELSE 0),
                           live_now |-> MadeNow(W, LIVE_COUNT_UPDATE),
                           breach_now |-> MadeNow(W, THRESHOLD_BREACH)]
            /\ UNCHANGED <<now, gateVars, ws_accepted, bc, workerVars,
                           configVars, taskVars>>

CountTick ==
    /\ Tick(MaxHandleTime)
    /\ UNCHANGED <<dedupVars, gateVars, fnVars, hubVars, handleVars,
                   workerVars, configVars, taskVars>>

NextCount ==
    \/ CountFrame
    \/ CountTick

SpecCount == InitCount /\ [][NextCount]_vars

\* the count messages are made only on a frame whose count differs from
\* the worker's last_count
C37_OnlyOnChange ==
    (fn_out.live_now \/ fn_out.breach_now)
        => fn_in.people_count # fn_in.last_count

\* after a handler that returned, last_count is the frame's count
C37_LastCountFollows ==
    fn_in.returned =>
        \A c \in HandleCameras : fp[c].last_count = fn_in.people_count

\* C37: LIVE_COUNT_UPDATE and THRESHOLD_BREACH are made only on frames whose
\* count differs from the worker's last_count, after every handler that
\* returned last_count is the count of the frame handled, and so frames
\* that all have one count above the threshold make exactly one
\* THRESHOLD_BREACH, however many they are.
C37_OneBreachPerConstantCrowd ==
    /\ C37_OnlyOnChange
    /\ C37_LastCountFollows
    /\ \A c \in HandleCameras :
           (/\ fn_in.frames > 0
            /\ fn_in.constant
            /\ fn_in.completed
            /\ fn_in.first > fp[c].threshold)
               => fn_out.breach = 1

----------------------------------------------------------------------------
(* SpecWorker: one FrameProcessor, the handlers that start and stop it and *)
(* the loops it has spawned                                                *)

InitWorker ==
    /\ now = 0
    /\ DedupInit
    /\ GateInit
    /\ HubInit
    /\ FnIdle
    /\ HandlerIdle
    /\ WorkerInit

WorkerStart == Start /\ UNCHANGED notWorker

WorkerStop == StopBegin /\ last_start' = NoStart /\ UNCHANGED notWorker

WorkerJoinDone == JoinDone /\ last_start' = NoStart /\ UNCHANGED notWorker

WorkerJoinTimeout == JoinTimeout /\ last_start' = NoStart /\ UNCHANGED notWorker

WorkerOpen ==
    /\ \E t \in DOMAIN threads, ok \in BOOLEAN : Open(t, ok)
    /\ last_start' = NoStart
    /\ UNCHANGED notWorker

WorkerTest ==
    /\ \E t \in DOMAIN threads : Test(t)
    /\ last_start' = NoStart
    /\ UNCHANGED notWorker

WorkerRead ==
    /\ \E t \in DOMAIN threads, ret \in BOOLEAN : Read(t, ret)
    /\ last_start' = NoStart
    /\ UNCHANGED notWorker

WorkerReconnect ==
    /\ \E t \in DOMAIN threads : Reconnect(t)
    /\ last_start' = NoStart
    /\ UNCHANGED notWorker

WorkerAnalyze ==
    /\ \E t \in DOMAIN threads, ok \in BOOLEAN : Analyze(t, ok)
    /\ last_start' = NoStart
    /\ UNCHANGED notWorker

WorkerHandle ==
    /\ \E t \in DOMAIN threads, published \in BOOLEAN, ok \in BOOLEAN :
           Handle(t, published, ok)
    /\ last_start' = NoStart
    /\ UNCHANGED notWorker

WorkerSleep ==
    /\ \E t \in DOMAIN threads : Sleep(t)
    /\ last_start' = NoStart
    /\ UNCHANGED notWorker

NextWorker ==
    \/ WorkerStart
    \/ WorkerStop
    \/ WorkerJoinDone
    \/ WorkerJoinTimeout
    \/ WorkerOpen
    \/ WorkerTest
    \/ WorkerRead
    \/ WorkerReconnect
    \/ WorkerAnalyze
    \/ WorkerHandle
    \/ WorkerSleep

SpecWorker == InitWorker /\ [][NextWorker]_vars

\* thread t takes its next step, whatever it is
ThreadStep(t) ==
    /\ t \in DOMAIN threads
    /\ \/ \E ok \in BOOLEAN : Open(t, ok)
       \/ Test(t)
       \/ \E ret \in BOOLEAN : Read(t, ret)
       \/ Reconnect(t)
       \/ \E ok \in BOOLEAN : Analyze(t, ok)
       \/ \E published \in BOOLEAN, ok \in BOOLEAN : Handle(t, published, ok)
       \/ Sleep(t)
    /\ last_start' = NoStart
    /\ UNCHANGED notWorker

\* SpecWorkerLive: every call a loop makes returns (the capture opens or
\* fails, the read, the detection, the handler and the sleeps come back),
\* so a thread that is not done keeps taking steps; the join of stop()
\* returns
SpecWorkerLive ==
    /\ SpecWorker
    /\ \A t \in 1..MaxThreads : WF_vars(ThreadStep(t))
    /\ WF_vars(WorkerJoinDone)
    /\ WF_vars(WorkerJoinTimeout)

\* C8: once stop() has returned, and until the worker is started again,
\* the worker analyzes no frame and broadcasts no message.
C8_NoFrameAfterStop == life.after_stop = {}

\* C9: start() on a running worker changes nothing and spawns no thread;
\* on a stopped worker it sets is_running and spawns exactly one loop, which
\* becomes the processing thread, and leaves the earlier threads alone.
C9_StartIdempotent ==
    last_start.made =>
        LET before == last_start.before
            after == last_start.after
        IN  IF before.is_running
            THEN after = before
            ELSE /\ after.is_running
                 /\ Len(after.threads) = Len(before.threads) + 1
                 /\ SubSeq(after.threads, 1, Len(before.threads)) = before.threads
                 /\ after.threads[Len(after.threads)] = NewThread
                 /\ after.processing_thread = Len(after.threads)

\* start() was called on a worker whose loop was running, and had been
\* called on a stopped one before
C9_Witness ==
    /\ last_start.made
    /\ last_start.before.is_running
    /\ last_start.before.threads # << >>
    /\ \E t \in DOMAIN last_start.before.threads :
           last_start.before.threads[t].pc \in {"read", "analyze", "handle"}

\* the loops of the worker that have not ended
Alive == {t \in DOMAIN threads : threads[t].pc # "done"}

\* C35: whatever start() and stop() calls are made and however they fall
\* between the steps of the loop, at most one processing loop of the worker
\* is alive.
C35_AtMostOneLoop == Cardinality(Alive) <= 1

\* C38: is_running is true only while a loop of the worker is alive; once
\* the loop has ended by itself (end of a file, source that cannot be
\* opened) the worker is stopped again, a status report says so and the
\* next start() spawns a loop.
C38_RunningOnlyWhileLoopAlive == is_running => Alive # {}

\* C32: after stop() was called on a running worker, each loop of the worker
\* that was alive eventually ends (and releases its capture on the way
\* out), for a file and for a live source alike.
C32_StoppedLoopEnds ==
    \A t \in 1..MaxThreads :
        (~is_running /\ t \in DOMAIN threads /\ threads[t].pc # "done")
            ~> (t \in DOMAIN threads /\ threads[t].pc = "done")

\* C22: an error raised while a frame is analyzed or handled never ends the
\* loop, and a loop that has started ends only because stop() cleared
\* is_running or because a finite file ran out.
C22_OnlyStopOrEndOfFileEndsLoop ==
    \A t \in DOMAIN threads :
        threads[t].ended \notin {"no", "open"} =>
            \/ threads[t].ended = "stop"
            \/ threads[t].ended = "read" /\ source = "file"

\* C23: on a failed read a worker on a live source (rtsp:// or http://)
\* goes to reopen its capture and stays in the loop; only a worker on a file
\* ends its loop on a failed read.
C23_LiveSourceReconnects ==
    \A t \in DOMAIN threads :
        /\ threads[t].pc = "reconnect" => source \in {"rtsp", "http"}
        /\ source \in {"rtsp", "http"} => threads[t].ended # "read"

\* C24: with frame_skip = N a loop has called _analyze_frame for exactly
\* the frames read whose 1-based index is a multiple of N, in increasing
\* order, each under the id camera_id + "_" + index; the index counts the
\* frames read, not the reads that failed.
C24_EveryNthFrameRead ==
    \A t \in DOMAIN threads :
        LET th == threads[t]
            due == th.reads \div frame_skip
            called == IF th.pc = "analyze" THEN due - 1 ELSE due
        IN  /\ th.frame_count = th.reads
            /\ th.pc = "analyze" => th.reads % frame_skip = 0
            /\ th.analyzed =
                   [k \in 1..called |->
                       WorkerCamera \o "_" \o ToString(k * frame_skip)]

\* a loop on an rtsp source that has analyzed frames 2 and 4 and whose next
\* read has failed
C24_Witness ==
    \E t \in DOMAIN threads :
        /\ threads[t].analyzed = <<"cam1_2", "cam1_4">>
        /\ threads[t].pc = "reconnect"


----------------------------------------------------------------------------
(* _detect_anomalies, rule 1: the fallen-person test on one frame's boxes *)

MaxDetections == 2

BoxWidths == {0, 1, 4, 10}

BoxHeights == {0, 1, 3}

\* PersonDetection of lines 548-555: the i-th box of a frame, its corner at
\* (i, i); the centre is written by the box it is the centre of
Detection(i, width, height) ==
    [bbox |-> <<i, i, i + width, i + height>>,
     center |-> Float32sValue("center" \o ToString(i)),
     confidence |-> FloatValue("0.9")]

\* lines 609-614 without the guard of line 612: a box of width 0 divides by
\* zero and appends nothing
IsFallenUnguarded(detection) ==
    LET width == detection.bbox[3] - detection.bbox[1]
        height == detection.bbox[4] - detection.bbox[2]
    IN  width > 0 /\ 10 * height < 3 * width

\* lines 609-614: height / width < 0.3, the ratio taken as 0 when the width
\* is not positive (0.3 = 3/10, so the test is 10 * height < 3 * width)
IsFallen(detection) ==
    LET width == detection.bbox[3] - detection.bbox[1]
        height == detection.bbox[4] - detection.bbox[2]
        zero_ratio == width <= 0
    IN  IF zero_ratio THEN 0 < 3 ELSE 10 * height < 3 * width

\* lines 615-622: the anomaly appended for one box
FallenAnomaly(detection) ==
    [type |-> "FALLEN_PERSON", severity |-> "HIGH",
     location |-> detection.center,
     confidence |-> detection.confidence,
     message |-> "Possible fallen person detected"]

\* lines 608-622: the loop over the detections, in their order
RECURSIVE FallenAnomalies(_)
FallenAnomalies(detections) ==
    IF detections = << >> THEN << >>
    ELSE (IF IsFallen(Head(detections))
          THEN <<FallenAnomaly(Head(detections))>> ELSE << >>)
         \o FallenAnomalies(Tail(detections))

Boxes == BoxWidths \X BoxHeights

InitFallen ==
    /\ now = 0
    /\ DedupInit
    /\ GateInit
    /\ HubInit
    /\ HandlerIdle
    /\ WorkerIdle
    /\ \E n \in 0..MaxDetections : \E boxes \in [1..n -> Boxes] :
           fn_in = [i \in 1..n |-> Detection(i, boxes[i][1], boxes[i][2])]
    /\ fn_out = << >>

\* line 564: the anomalies of the frame whose detections are fn_in
FallenApply ==
    /\ fn_out = << >>
    /\ fn_out' = <<FallenAnomalies(fn_in)>>
    /\ UNCHANGED <<fn_in, notFn>>

NextFallen == FallenApply

SpecFallen == InitFallen /\ [][NextFallen]_vars

\* C11: the boxes of a frame whose height-to-width ratio is under 0.3 (a box
\* of non-positive width counts as ratio 0) each get one FALLEN_PERSON anomaly
\* of severity HIGH located at that box's centre, and no other box gets one.
C11_FallenPerson ==
    fn_out # << >> =>
        LET anomalies == fn_out[1]
            flat == {i \in 1..Len(fn_in) :
                        LET w == fn_in[i].bbox[3] - fn_in[i].bbox[1]
                            h == fn_in[i].bbox[4] - fn_in[i].bbox[2]
                        IN  \/ w <= 0
                            \/ w > 0 /\ 10 * h < 3 * w}
        IN  /\ Len(anomalies) = Cardinality(flat)
            /\ \A k \in 1..Len(anomalies) :
                   /\ anomalies[k].type = "FALLEN_PERSON"
                   /\ anomalies[k].severity = "HIGH"
            /\ \A i \in 1..Len(fn_in) :
                   (i \in flat) =
                       (Cardinality({k \in 1..Len(anomalies) :
                            anomalies[k].location = fn_in[i].center}) = 1)
            /\ \A i \in 1..Len(fn_in) : i \notin flat =>
                   \A k \in 1..Len(anomalies) :
                       anomalies[k].location # fn_in[i].center

\* a frame with a box of width 0 and a box exactly at ratio 0.3: the first is
\* reported, the second is not
C11_Witness ==
    /\ Len(fn_in) = 2
    /\ fn_in[1].bbox[3] = fn_in[1].bbox[1]
    /\ 10 * (fn_in[2].bbox[4] - fn_in[2].bbox[2])
           = 3 * (fn_in[2].bbox[3] - fn_in[2].bbox[1])
    /\ fn_in[2].bbox[3] > fn_in[2].bbox[1]
    /\ fn_out # << >>
    /\ Len(fn_out[1]) = 1
    /\ fn_out[1][1].location = fn_in[1].center


----------------------------------------------------------------------------
(* SpecAnalyze: the frames of one worker, analyzed one after the other *)

MaxAnalyzeTime == 3   \* SpecAnalyze: the clock stops advancing here

\* lines 503-506: _analyze_frame on one frame; fn_in keeps what the worker
\* held when it was called, fn_out the FrameAnalysis it returned
Analyze1(camera_id, people_count, fallen, fast, close, yolo_ok) ==
    LET p == fp[camera_id]
    IN  /\ now > p.frame_time
        /\ fn_in' = FrameArgs(p, people_count, fallen, yolo_ok)
        /\ IF AnalyzeRaises(p, now, people_count, yolo_ok)
           THEN /\ fp' = [fp EXCEPT ![camera_id].frame_time = now]
                /\ fn_out' = << >>
           ELSE /\ fp' = [fp EXCEPT ![camera_id] =
                              [AfterAnalyze(p, now, people_count)
                                   EXCEPT !.frame_time = now]]
                /\ fn_out' = <<_analyze_frame(p, now, people_count,
                                              fallen, fast, close)>>
        /\ UNCHANGED <<now, dedupVars, gateVars, hubVars, crowd_flow_data,
                       zones, alerts_sent, workerVars, configVars, taskVars>>

AnalyzeFrame ==
    \E camera_id \in HandleCameras, yolo_ok \in BOOLEAN :
        \E people_count \in IF yolo_ok THEN FrameCounts ELSE {0} :
            \E fallen \in 0..(IF people_count > 0 THEN MaxFallen ELSE 0),
               fast \in BOOLEAN, close \in BOOLEAN :
                Analyze1(camera_id, people_count, fallen, fast, close, yolo_ok)

AnalyzeTick ==
    /\ Tick(MaxAnalyzeTime)
    /\ UNCHANGED <<dedupVars, gateVars, fnVars, hubVars, handleVars, workerVars, configVars, taskVars>>

NextAnalyze ==
    \/ AnalyzeFrame
    \/ AnalyzeTick

SpecAnalyze == InitHandle /\ [][NextAnalyze]_vars

\* the anomalies of the given kind in a FrameAnalysis
AnomaliesOf(a, type) ==
    {k \in 1..Len(a.anomalies) : a.anomalies[k].type = type}

\* C12: an analyzed frame carries a STAMPEDE anomaly only if it holds more
\* than 5 detections and the set two analyzed frames back in the worker's
\* history holds more than 5, whatever the displacement; and it carries at
\* most one.
C12_StampedeNeedsBothCrowded ==
    fn_out # << >> =>
        LET history == fn_in.movement_tracker
            stampedes == AnomaliesOf(fn_out[1], "STAMPEDE")
        IN  /\ Cardinality(stampedes) <= 1
            /\ stampedes # {} =>
                   /\ fn_in.people_count > 5
                   /\ Len(history) >= 2
                   /\ history[Len(history) - 1] > 5

\* a stampede reported although the frame just before held nobody: the
\* test looked one frame further back
C12_Witness ==
    /\ fn_out # << >>
    /\ AnomaliesOf(fn_out[1], "STAMPEDE") # {}
    /\ fn_in.movement_tracker[Len(fn_in.movement_tracker)] = 0

\* C39: none of the first three analyzed frames of a worker carries a
\* STAMPEDE anomaly: the test runs only when the history already holds 3
\* sets, it reads the second-newest of them, and the frame's own set is
\* stored only after the anomalies were looked for.
C39_NoStampedeInFirstThreeFrames ==
    fn_out # << >> =>
        LET history == fn_in.movement_tracker
            stampedes == AnomaliesOf(fn_out[1], "STAMPEDE")
        IN  /\ Len(history) < 3 => stampedes = {}
            /\ stampedes # {} => history[Len(history) - 1] > 5
            /\ \A c \in HandleCameras :
                   fn_in.camera_id = c =>
                       /\ Len(fp[c].movement_tracker) = Len(history) + 1
                       /\ SubSeq(fp[c].movement_tracker, 1, Len(history)) = history
                       /\ fp[c].movement_tracker[Len(history) + 1]
                              = fn_in.people_count

\* the fourth analyzed frame carries a stampede: the first and the third
\* frame held nobody, the second and the fourth a crowd
C39_Witness ==
    /\ fn_out # << >>
    /\ AnomaliesOf(fn_out[1], "STAMPEDE") # {}
    /\ Len(fn_in.movement_tracker) = 3
    /\ fn_in.movement_tracker[1] = 0
    /\ fn_in.movement_tracker[2] > 5
    /\ fn_in.movement_tracker[3] = 0

\* the FrameAnalysis of an empty frame carries the empty heatmap record
EmptyRecord(heatmap_data) ==
    /\ heatmap_data.has
    /\ heatmap_data.dict.hotspots = << >>
    /\ heatmap_data.dict.total_people = 0
    /\ heatmap_data.dict.current_density = "0.0"
    /\ heatmap_data.dict.max_density = "0.0"

\* C19 as stated: generate_heatmap on no detections gives a record with no
\* hotspots, total_people 0 and both densities 0, and the analysis of a frame
\* with no detections never has a null heatmap.
C19_EmptyFrameAlwaysHasHeatmap ==
    (fn_out # << >> /\ fn_in.people_count = 0) =>
        EmptyRecord(fn_out[1].heatmap_data)

\* C19 as amended: the analysis of a frame with no detections carries a
\* heatmap exactly when one is generated for it (the worker has a generator
\* and more than heatmap_update_interval has passed since its last heatmap),
\* and that heatmap is the record with no hotspots, total_people 0 and both
\* densities 0; otherwise its heatmap is null.
C19_EmptyFrameHeatmapWhenDue ==
    (fn_out # << >> /\ fn_in.people_count = 0) =>
        LET heatmap_data == fn_out[1].heatmap_data
            due == /\ fn_in.heatmap_generator
                   /\ fn_out[1].timestamp - fn_in.last_heatmap_update
                          > heatmap_update_interval
        IN  /\ heatmap_data.has = due
            /\ due => EmptyRecord(heatmap_data)
            /\ ~due => heatmap_data.dict = NullValue

\* an empty frame for which a heatmap was generated
C19_Witness ==
    /\ fn_out # << >>
    /\ fn_in.people_count = 0
    /\ fn_out[1].heatmap_data.has

\* C20: every analyzed frame carries the anomalies found in it, heatmap or
\* not, and carries a heatmap only if more than heatmap_update_interval has
\* passed since the previous heatmap of the same worker.
C20_HeatmapOnlyAfterInterval ==
    fn_out # << >> =>
        /\ Cardinality(AnomaliesOf(fn_out[1], "FALLEN_PERSON")) = fn_in.fallen
        /\ fn_out[1].heatmap_data.has =>
               fn_out[1].timestamp - fn_in.last_heatmap_update
                   > heatmap_update_interval

\* a worker's second heatmap, and a frame between the two heatmaps that
\* carried an anomaly and no heatmap
C20_Witness ==
    /\ fn_out # << >>
    /\ fn_out[1].heatmap_data.has
    /\ fn_in.last_heatmap_update >= 0
    /\ fn_out[1].timestamp - fn_in.last_heatmap_update = heatmap_update_interval + 1


----------------------------------------------------------------------------
(* _generate_re_routing_suggestions on a snapshot of the crowd-flow records *)

MaxZones == 5

\* the (tier, occupancy_percentage) pairs of the snapshot's records: the
\* tier is the camera's (line 678), the percentage the zone's (line 677)
RouteZoneKinds ==
    {<<"NONE", 0>>, <<"LOW", 20>>, <<"LOW", 60>>, <<"LOW", 95>>,
     <<"HIGH", 20>>, <<"CRITICAL", 20>>}

\* lines 960-972, 1639-1652: the fields of a record that re-routing reads
RouteZone(i, kind) ==
    [zone_id |-> "zone" \o ToString(i),
     zone_name |-> "Zone " \o ToString(i),
     density_level |-> kind[1],
     occupancy_percentage |-> kind[2]]

\* the dict literals of lines 1921 and 1967 have no key "NONE"
TierKeys == {"LOW", "MEDIUM", "HIGH", "CRITICAL"}

\* line 1921
TierRank(density_level) ==
    CASE density_level = "LOW" -> 1
      [] density_level = "MEDIUM" -> 2
      [] density_level = "HIGH" -> 3
      [] density_level = "CRITICAL" -> 4

\* the sort key taken as (occupancy_percentage, tier)
RouteKeyLEByOccupancy(x, y) ==
    \/ x.occupancy_percentage < y.occupancy_percentage
    \/ /\ x.occupancy_percentage = y.occupancy_percentage
       /\ TierRank(x.density_level) <= TierRank(y.density_level)

\* lines 1920-1923: the sort key (tier rank, occupancy_percentage) of x is
\* not above that of y
RouteKeyLE(x, y) ==
    \/ TierRank(x.density_level) < TierRank(y.density_level)
    \/ /\ TierRank(x.density_level) = TierRank(y.density_level)
       /\ x.occupancy_percentage <= y.occupancy_percentage

\* list.sort: ascending by the key, equal keys kept in their order
RECURSIVE SortZones(_)
SortZones(zs) ==
    IF zs = << >> THEN << >>
    ELSE LET rest == SortZones(SubSeq(zs, 1, Len(zs) - 1))
             last == zs[Len(zs)]
             IsBefore(y) == RouteKeyLE(y, last)
             IsAfter(y) == ~RouteKeyLE(y, last)
         IN  SelectSeq(rest, IsBefore) \o <<last>> \o SelectSeq(rest, IsAfter)

\* Python's round of the fraction n / d, halves to the even neighbour
RoundHalfEven(n, d) ==
    LET q == n \div d
        r == n % d
    IN  IF 2 * r < d THEN q
        ELSE IF 2 * r > d THEN q + 1
        ELSE IF q % 2 = 0 THEN q ELSE q + 1

\* lines 1963-1969: round(5 * (percentage / 100) * multiplier), the
\* multipliers 1, 1.5, 2, 3 written as halves
_estimate_wait_time(zone) ==
    LET halves == CASE zone.density_level = "LOW" -> 2
                    [] zone.density_level = "MEDIUM" -> 3
                    [] zone.density_level = "HIGH" -> 4
                    [] zone.density_level = "CRITICAL" -> 6
    IN  RoundHalfEven(5 * zone.occupancy_percentage * halves, 200)

\* lines 1949-1961
_calculate_urgency(from_zone, to_zone) ==
    IF from_zone.density_level = "CRITICAL" /\ to_zone.density_level = "LOW"
    THEN "critical"
    ELSE IF from_zone.density_level = "HIGH" /\ to_zone.density_level = "LOW"
    THEN "high"
    ELSE IF from_zone.density_level = "MEDIUM" /\ to_zone.density_level = "LOW"
    THEN "medium"
    ELSE "low"

\* lines 1971-1979
_generate_re_routing_reason(from_zone, to_zone) ==
    IF from_zone.density_level = "CRITICAL"
    THEN "Critical crowd density detected. Redirecting to "
             \o to_zone.zone_name \o " for safety."
    ELSE IF from_zone.occupancy_percentage > 80
    THEN "High occupancy (" \o ToString(from_zone.occupancy_percentage)
             \o ".0%). " \o to_zone.zone_name \o " has better capacity."
    ELSE "Better crowd conditions at " \o to_zone.zone_name
             \o ". Estimated wait time: "
             \o ToString(_estimate_wait_time(to_zone)) \o " minutes."

\* lines 1981-1989, called with the two zones only: both are excluded
_find_alternative_routes(from_zone_id, to_zone_id, all_zones) ==
    LET IsAlternative(zone) ==
            /\ zone.zone_id \notin {from_zone_id, to_zone_id}
            /\ zone.density_level = "LOW"
        alternative_zones == SelectSeq(all_zones, IsAlternative)
    IN  [i \in 1..(IF Len(alternative_zones) < 2
                   THEN Len(alternative_zones) ELSE 2) |->
            alternative_zones[i].zone_name]

\* lines 1931-1947
_create_re_routing_suggestion(from_zone, to_zone) ==
    [from_zone |-> from_zone.zone_id,
     to_zone |-> to_zone.zone_id,
     reason |-> _generate_re_routing_reason(from_zone, to_zone),
     urgency |-> _calculate_urgency(from_zone, to_zone),
     estimated_wait_time |-> _estimate_wait_time(to_zone),
     alternative_routes |->
         _find_alternative_routes(from_zone.zone_id, to_zone.zone_id,
                                  <<from_zone, to_zone>>),
     crowd_conditions |-> [from_zone |-> from_zone, to_zone |-> to_zone]]

\* lines 1911-1916: the candidates, in the order of all_zones
CandidateZones(current_zone, all_zones) ==
    LET IsCandidate(zone) ==
            /\ zone.zone_id # current_zone.zone_id
            /\ zone.density_level # "CRITICAL"
            /\ zone.occupancy_percentage < 90
    IN  SelectSeq(all_zones, IsCandidate)

\* lines 1906-1929. The key of every candidate is computed by the sort; the
\* lookup of line 1921 raises KeyError for a tier that is not a key. The
\* result holds the list returned, or raised, and all_zones as it is left.
_generate_re_routing_suggestions(current_zone, all_zones) ==
    LET candidate_zones == CandidateZones(current_zone, all_zones)
    IN  IF \E i \in 1..Len(candidate_zones) :
               candidate_zones[i].density_level \notin TierKeys
        THEN [raised |-> TRUE, suggestions |-> << >>, all_zones |-> all_zones]
        ELSE LET sorted == SortZones(candidate_zones)
                 top == SubSeq(sorted, 1,
                               IF Len(sorted) < 3 THEN Len(sorted) ELSE 3)
             IN  [raised |-> FALSE,
                  suggestions |->
                      [i \in 1..Len(top) |->
                          _create_re_routing_suggestion(current_zone, top[i])],
                  all_zones |-> all_zones]

\* a snapshot of one to MaxZones records and the zone asked about, the
\* first or the last of them
InitReroute ==
    /\ now = 0
    /\ DedupInit
    /\ GateInit
    /\ HubInit
    /\ HandlerIdle
    /\ WorkerIdle
    /\ \E n \in 1..MaxZones : \E kinds \in [1..n -> RouteZoneKinds] :
           \E current \in {1, n} :
               LET all_zones == [i \in 1..n |-> RouteZone(i, kinds[i])]
               IN  fn_in = [current_zone |-> all_zones[current],
                            all_zones |-> all_zones]
    /\ fn_out = << >>

RerouteApply ==
    /\ fn_out = << >>
    /\ fn_out' = <<_generate_re_routing_suggestions(fn_in.current_zone,
                                                    fn_in.all_zones)>>
    /\ UNCHANGED <<fn_in, notFn>>

NextReroute == RerouteApply

SpecReroute == InitReroute /\ [][NextReroute]_vars

\* the record of the snapshot with the given id
ZoneOf(zone_id) ==
    fn_in.all_zones[CHOOSE i \in DOMAIN fn_in.all_zones :
                        fn_in.all_zones[i].zone_id = zone_id]

\* (tier, occupancy_percentage) of x comes before that of y, or equals it
TierThenOccupancy(x, y) ==
    LET tier(z) == Rank(z.density_level)
    IN  \/ tier(x) < tier(y)
        \/ tier(x) = tier(y) /\ x.occupancy_percentage <= y.occupancy_percentage

\* C17: the destinations returned are never the source zone, never a zone
\* at tier CRITICAL or at occupancy_percentage >= 90; they are min(3, number
\* of candidates) distinct candidates, in ascending order of (tier,
\* occupancy_percentage), and no candidate left out ranks before one returned.
C17_RerouteTopThree ==
    (fn_out # << >> /\ ~fn_out[1].raised) =>
        LET suggestions == fn_out[1].suggestions
            to(k) == ZoneOf(suggestions[k].to_zone)
            candidates ==
                {z \in {fn_in.all_zones[i] : i \in DOMAIN fn_in.all_zones} :
                    /\ z.zone_id # fn_in.current_zone.zone_id
                    /\ z.density_level # "CRITICAL"
                    /\ z.occupancy_percentage < 90}
            returned == {to(k) : k \in 1..Len(suggestions)}
        IN  /\ returned \subseteq candidates
            /\ Cardinality(returned) = Len(suggestions)
            /\ Len(suggestions) = (IF Cardinality(candidates) < 3
                                   THEN Cardinality(candidates) ELSE 3)
            /\ \A k \in 1..Len(suggestions) :
                   suggestions[k].from_zone = fn_in.current_zone.zone_id
            /\ \A j, k \in 1..Len(suggestions) :
                   j < k => TierThenOccupancy(to(j), to(k))
            /\ \A z \in candidates \ returned : \A r \in returned :
                   TierThenOccupancy(r, z)

\* four candidates that are not in order, of which three are returned: a
\* HIGH zone at 20 percent comes after a LOW zone at 60 percent
C17_Witness ==
    /\ fn_out # << >>
    /\ ~fn_out[1].raised
    /\ Len(fn_out[1].suggestions) = 3
    /\ Len(CandidateZones(fn_in.current_zone, fn_in.all_zones)) = 4
    /\ ZoneOf(fn_out[1].suggestions[2].to_zone).occupancy_percentage = 60
    /\ ZoneOf(fn_out[1].suggestions[3].to_zone).density_level = "HIGH"
    /\ fn_in.all_zones[2].density_level = "HIGH"

\* C18: for every snapshot of crowd-flow records, records at tier NONE
\* included, _generate_re_routing_suggestions returns a list and leaves the
\* records as they were.
C18_RerouteTotal ==
    fn_out # << >> =>
        /\ ~fn_out[1].raised
        /\ fn_out[1].all_zones = fn_in.all_zones


----------------------------------------------------------------------------
(* SpecZone: the workers of two cameras bound to one zone, each in its own *)
(* thread (line 456), running the zone update of _handle_analysis line by  *)
(* line on the shared state.crowd_flow_data; nothing serializes them       *)

MaxZoneFrames == 1    \* SpecZone: frames handled by each worker

\* line 428: the threshold a worker gets when none is given
DefaultThreshold == 20

ZoneCameras == <<  <<"cam1">>, <<"cam2">>  >>

ZoneCounts == {6, 11}

SharedZone == "zone1"

\* a worker thread between two frames; done holds the frames whose zone
\* update it has completed
ZoneThread(camera_id) ==
    [camera_id |-> camera_id, pc |-> "idle", frames |-> 0,
     analysis |-> [people_count |-> 0, density_level |-> "NONE",
                   heatmap_data |-> FALSE],
     done |-> {}]

InitZone ==
    /\ now = 0
    /\ DedupInit
    /\ GateInit
    /\ HubInit
    /\ FnIdle
    /\ \E capacity \in ZoneCapacities :
           /\ zones = [z \in {SharedZone} |-> NewZone(capacity)]
           /\ crowd_flow_data = [z \in {SharedZone} |-> NewFlow(capacity)]
           /\ fp = [c \in {ZoneCameras[i] : i \in DOMAIN ZoneCameras} |->
                       NewProcessor(c, DefaultThreshold, SharedZone,
                                    [z \in {SharedZone} |-> NewZone(capacity)])]
    /\ alerts_sent = {}
    /\ camera_configs = << >>
    /\ ws_tasks = << >>
    /\ source = "file"
    /\ is_running = TRUE
    /\ processing_thread = NoThread
    /\ threads = [i \in DOMAIN ZoneCameras |-> ZoneThread(ZoneCameras[i])]
    /\ caller = [pc |-> "idle"]
    /\ last_start = NoStart
    /\ life = NoLife

\* thread i moves from one line to the next; everything but the shared
\* records, the processors and the threads stays
ZoneStep(i, from, to) ==
    /\ threads[i].pc = from
    /\ threads' = [threads EXCEPT ![i].pc = to]
    /\ UNCHANGED <<now, dedupVars, gateVars, fnVars, hubVars, alerts_sent,
                   source, is_running, processing_thread, caller,
                   last_start, life, configVars, taskVars>>

\* lines 509-510 and 672-674: a frame is analyzed and its handler reaches
\* the zone update
ZoneFrame(i) ==
    \E people_count \in ZoneCounts, heatmap_data \in BOOLEAN :
        /\ threads[i].pc = "idle"
        /\ threads[i].frames < MaxZoneFrames
        /\ threads' = [threads EXCEPT
               ![i].pc = "675",
               ![i].frames = @ + 1,
               ![i].analysis =
                   [people_count |-> people_count,
                    density_level |->
                        _calculate_density_level(people_count,
                            fp[threads[i].camera_id].threshold),
                    heatmap_data |-> heatmap_data]]
        /\ UNCHANGED <<now, dedupVars, gateVars, fnVars, hubVars, handleVars,
                       source, is_running, processing_thread, caller,
                       last_start, life, configVars, taskVars>>

ZoneLine675(i) ==
    /\ ZoneStep(i, "675", "676")
    /\ crowd_flow_data' = [crowd_flow_data EXCEPT
           ![SharedZone].people_count = threads[i].analysis.people_count]
    /\ UNCHANGED <<fp, zones>>

ZoneLine676(i) ==
    /\ ZoneStep(i, "676", "677")
    /\ crowd_flow_data' = [crowd_flow_data EXCEPT
           ![SharedZone].current_occupancy = threads[i].analysis.people_count]
    /\ UNCHANGED <<fp, zones>>

ZoneLine677(i) ==
    /\ ZoneStep(i, "677", "678")
    /\ crowd_flow_data' = [crowd_flow_data EXCEPT
           ![SharedZone].occupancy_percentage =
               (threads[i].analysis.people_count * 100)
                   \div crowd_flow_data[SharedZone].capacity]
    /\ UNCHANGED <<fp, zones>>

ZoneLine678(i) ==
    /\ ZoneStep(i, "678", "679")
    /\ crowd_flow_data' = [crowd_flow_data EXCEPT
           ![SharedZone].density_level = threads[i].analysis.density_level]
    /\ UNCHANGED <<fp, zones>>

ZoneLine679(i) ==
    /\ ZoneStep(i, "679", "682")
    /\ crowd_flow_data' = [crowd_flow_data EXCEPT
           ![SharedZone].last_update = IsoFormat(now)]
    /\ UNCHANGED <<fp, zones>>

\* lines 682-686
ZoneLine682(i) ==
    /\ ZoneStep(i, "682", "689")
    /\ zones' = IF threads[i].analysis.heatmap_data
                THEN [zones EXCEPT ![SharedZone].current_occupancy =
                                       threads[i].analysis.people_count]
                ELSE zones
    /\ UNCHANGED <<fp, crowd_flow_data>>

\* lines 689-699: the trend, last_zone_count and the live-map broadcast (no
\* client is connected); the update is complete
ZoneLine689(i) ==
    LET c == threads[i].camera_id
        a == threads[i].analysis
    IN  /\ threads[i].pc = "689"
        /\ threads' = [threads EXCEPT ![i].pc = "idle",
                                      ![i].done = @ \cup {a}]
        /\ crowd_flow_data' = [crowd_flow_data EXCEPT
               ![SharedZone].trend =
                   Trend(fp[c].last_zone_count, a.people_count, @)]
        /\ fp' = [fp EXCEPT ![c].last_zone_count =
                                [has |-> TRUE, count |-> a.people_count]]
        /\ UNCHANGED <<now, dedupVars, gateVars, fnVars, hubVars, zones,
                       alerts_sent, source, is_running, processing_thread,
                       caller, last_start, life, configVars, taskVars>>

NextZone ==
    \E i \in DOMAIN ZoneCameras :
        \/ ZoneFrame(i)
        \/ ZoneLine675(i)
        \/ ZoneLine676(i)
        \/ ZoneLine677(i)
        \/ ZoneLine678(i)
        \/ ZoneLine679(i)
        \/ ZoneLine682(i)
        \/ ZoneLine689(i)

SpecZone == InitZone /\ [][NextZone]_vars

\* the zone's record holds the count, percentage and tier of the frame a
ZoneHoldsFrame(zone_data, a) ==
    /\ zone_data.people_count = a.people_count
    /\ zone_data.current_occupancy = a.people_count
    /\ zone_data.occupancy_percentage * zone_data.capacity
           = a.people_count * 100
    /\ zone_data.density_level = a.density_level

\* C15: whenever no worker is in the middle of its zone update, the zone's
\* record has people_count = current_occupancy and occupancy_percentage =
\* current_occupancy / capacity * 100, and its count, percentage and tier
\* are those of one frame whose update has completed (or the record is as
\* created).
C15_ZoneUpdatesNotMixed ==
    (\A i \in DOMAIN threads : threads[i].pc = "idle") =>
        LET zone_data == crowd_flow_data[SharedZone]
            handled == UNION {threads[i].done : i \in DOMAIN threads}
        IN  \/ handled = {} /\ zone_data = NewFlow(zone_data.capacity)
            \/ \E a \in handled : ZoneHoldsFrame(zone_data, a)

----------------------------------------------------------------------------
(* SpecHub: several workers publish while the endpoints add and drop       *)
(* connections.                                                            *)
(*                                                                         *)
(* Each worker runs _broadcast_to_websockets on a thread of its own        *)
(* (asyncio.run, line 512); the endpoints run on the event loop's thread.  *)
(* No lock is taken anywhere, so a thread switch can fall between any two  *)
(* statements; set.copy, set.add and set.discard on connection objects     *)
(* (hashed by identity) each run under the interpreter lock without        *)
(* calling back into Python code, so each is one step.                     *)
(*                                                                         *)
(* Here bc holds every call in progress and what is remembered of the      *)
(* connections:                                                            *)
(*   calls : publisher -> its call (as in SpecBroadcast)                   *)
(*   sub   : connection -> the channel its endpoint added it to            *)
(*   failed: the connections a send to which has raised                    *)
(*   gone  : the connections whose endpoint has run its finally clause     *)
(*   last  : the clean-up that has just run, until the next step of        *)
(*           anyone: the snapshot its call worked on, what it took out of  *)
(*           the set, and the connections whose send failed in that call   *)

\* state.frame_processors: one worker per camera, each publishing from its
\* own thread
Publishers == CameraIds
HubSockets == 1..MaxHubSockets

\* the channels the workers and the endpoints meet on
HubChannels == {<<"alerts", << >> >>, <<"frames", <<"cam1">> >>}

IdleCall ==
    [pc |-> "idle", channel |-> None, camera_id |-> << >>,
     connections |-> {}, todo |-> {}, dead_connections |-> {},
     attempts |-> << >>, failed |-> {}, delivered |-> {}]

NoCleanup == [made |-> FALSE, connections |-> {}, removed |-> {}, dead |-> {}]

InitHub ==
    /\ now = 0
    /\ DedupInit
    /\ GateInit
    /\ FnIdle
    /\ HandlerIdle
    /\ WorkerIdle
    /\ websocket_connections =
           [alerts |-> {}, frames |-> << >>, instructions |-> {}, live_map |-> {}]
    /\ ws_accepted = {}
    /\ bc = [calls |-> [p \in Publishers |-> IdleCall],
             sub |-> << >>, failed |-> {}, gone |-> {}, last |-> NoCleanup]

\* lines 1018, 1048: accept() and .add(websocket)
HubSubscribe ==
    \E ch \in HubChannels, ws \in HubSockets :
        /\ WsSubscribe(ch[1], ch[2], ws)
        /\ bc' = [bc EXCEPT !.sub = Put(@, ws, ch), !.last = NoCleanup]
        /\ UNCHANGED notBroadcast

\* lines 1042, 1070: the finally clause discards the connection, whether a
\* publisher has already taken it out or not
HubDisconnect ==
    \E ws \in ws_accepted \ bc.gone :
        LET ch == bc.sub[ws]
        IN  /\ websocket_connections' =
                   WithChannelSet(websocket_connections, ch[1], ch[2],
                       ChannelSet(websocket_connections, ch[1], ch[2]) \ {ws})
            /\ bc' = [bc EXCEPT !.gone = @ \cup {ws}, !.last = NoCleanup]
            /\ UNCHANGED <<ws_accepted, notBroadcast>>

\* lines 880-888: the snapshot and the early return; a frame is published
\* only if line 782 finds the camera's key with a subscriber, so the call
\* never creates a key
HubBegin ==
    \E p \in Publishers, ch \in HubChannels :
        LET connections == ChannelSet(websocket_connections, ch[1], ch[2])
        IN  /\ bc.calls[p].pc = "idle"
            /\ UNCHANGED websocket_connections
            /\ bc' = [bc EXCEPT !.calls[p] =
                          IF connections = {} THEN IdleCall
                          ELSE [pc |-> "send",
                                channel |-> ch[1], camera_id |-> ch[2],
                                connections |-> connections, todo |-> connections,
                                dead_connections |-> {},
                                attempts |-> [ws \in connections |-> 0],
                                failed |-> {}, delivered |-> {}],
                                 !.last = NoCleanup]
            /\ UNCHANGED <<ws_accepted, notBroadcast>>

\* lines 895-902: one send of one call
HubSend ==
    \E p \in Publishers, ok \in BOOLEAN :
        /\ bc.calls[p].pc = "send"
        /\ \E ws \in bc.calls[p].todo :
               bc' = [bc EXCEPT !.calls[p] = AfterSend(@, ws, ok),
                                !.failed = IF ok THEN @ ELSE @ \cup {ws},
                                !.last = NoCleanup]
        /\ UNCHANGED <<websocket_connections, ws_accepted, notBroadcast>>

\* lines 905-906 with the set written back from the snapshot of line 886
DiscardDeadFromSnapshot(current, call) ==
    call.connections \ call.dead_connections

\* lines 905-906: every dead connection is discarded from the set as it is
\* when the clean-up runs
DiscardDead(current, call) == current \ call.dead_connections

\* lines 904-911
HubCleanup ==
    \E p \in Publishers :
        LET call == bc.calls[p]
            current == ChannelSet(websocket_connections, call.channel, call.camera_id)
            left == DiscardDead(current, call)
        IN  /\ call.pc = "cleanup"
            /\ websocket_connections' =
                   WithChannelSet(websocket_connections, call.channel,
                                  call.camera_id, left)
            /\ bc' = [bc EXCEPT
                         !.calls[p] = IdleCall,
                         !.last = [made |-> TRUE,
                                   connections |-> call.connections,
                                   removed |-> current \ left,
                                   dead |-> call.failed]]
            /\ UNCHANGED <<ws_accepted, notBroadcast>>

NextHub ==
    \/ HubSubscribe
    \/ HubDisconnect
    \/ HubBegin
    \/ HubSend
    \/ HubCleanup

SpecHub == InitHub /\ [][NextHub]_vars

\* C25: under any interleaving of publishes by several workers with
\* subscribes and disconnects, a connection that has subscribed, has never
\* failed a send and has not disconnected is in its channel's set after
\* every step, and a publish takes out of the set only connections whose
\* send failed in that publish.
C25_SubscriberSetIntact ==
    /\ \A ws \in ws_accepted :
           (ws \notin bc.failed /\ ws \notin bc.gone) =>
               ws \in ChannelSet(websocket_connections, bc.sub[ws][1], bc.sub[ws][2])
    /\ bc.last.made => bc.last.removed \subseteq bc.last.dead

\* a connection subscribed while a call was between its snapshot and its
\* clean-up and is in the snapshot of a second call, which was taken before
\* the first call's clean-up took a failed connection out and is still
\* being sent to
C25_Witness ==
    /\ bc.last.made
    /\ bc.last.removed # {}
    /\ \E q \in Publishers :
           /\ bc.calls[q].pc = "send"
           /\ bc.calls[q].connections \cap bc.last.removed # {}
           /\ \E ws \in bc.calls[q].connections \ bc.last.connections :
                  ws \notin bc.failed \cup bc.gone

----------------------------------------------------------------------------
(* SpecAdmin: the endpoints that start a camera and create a zone          *)
(*                                                                         *)
(* The handlers are coroutines of the one event loop and the ones below    *)
(* await nothing between their first test and their last assignment, so    *)
(* each request is one step.  fn_in keeps the last request and what it     *)
(* found (known: its zone id was in the zone map; monitored: its camera    *)
(* had a processor), fn_out its status code, the cameras whose processor   *)
(* it stopped and which of the four maps it left as they were.             *)

\* lines 918-972: one of the zones the start-up creates
StartupZones == {"zone_ghat_01"}

StartupCapacity(zone_id) == 1000

\* the camera the requests name
AdminCameras == {<<"cam1">>}

\* str(uuid.uuid4()), line 1615: the n-th draw, taken to differ from every
\* other one
CreatedZoneId(n) == "uuid" \o ToString(n)

\* the capacities a client may post: ZoneData.capacity is any int
PostedCapacities == {0 - 1, 0, 5}

\* the zone ids a client may name: none, unknown, or any id that may exist
NamedZones ==
    {"", "zone_unknown"} \cup StartupZones
        \cup {CreatedZoneId(n) : n \in 1..MaxCreated}

AdminThresholds == {5, 20}

\* lines 1216-1222 and 1283-1290, without started_at and file_name
CameraConfig(src, threshold, zone_id) ==
    [source |-> src, threshold |-> threshold, zone_id |-> zone_id,
     status |-> "active"]

InitAdmin ==
    /\ now = 0
    /\ DedupInit
    /\ GateInit
    /\ HubInit
    /\ WorkerIdle
    /\ fn_in = << >>
    /\ fn_out = << >>
    /\ zones = [z \in StartupZones |-> NewZone(StartupCapacity(z))]
    /\ crowd_flow_data = [z \in StartupZones |-> NewFlow(StartupCapacity(z))]
    /\ fp = << >>
    /\ alerts_sent = {}
    /\ camera_configs = << >>
    /\ ws_tasks = << >>

AdminState ==
    [fp |-> fp, camera_configs |-> camera_configs, zones |-> zones,
     crowd_flow_data |-> crowd_flow_data]

\* lines 1199-1203 and 1252-1256 testing only that a zone id was given
ZoneCheckOnlyGiven(zone_id, zs) ==
    IF zone_id = "" THEN 400 ELSE 200

\* lines 1199-1203 and 1252-1256: the status the zone id is turned away
\* with, or 200
ZoneCheck(zone_id, zs) ==
    IF zone_id = "" THEN 400
    ELSE IF zone_id \notin DOMAIN zs THEN 404
    ELSE 200

Without(f, k) == [x \in (DOMAIN f) \ {k} |-> f[x]]

\* lines 1205-1222 and 1270-1290: the running processor of the camera is
\* stopped and deleted, then a new one is built and started; if that raises
\* the handler answers 500
StartProcessor(st, camera_id, src, threshold, zone_id, ok) ==
    LET existing == camera_id \in DOMAIN st.fp
        cleared == IF existing THEN Without(st.fp, camera_id) ELSE st.fp
        stopped == IF existing THEN {camera_id} ELSE {}
    IN  IF ok
        THEN [status_code |-> 200, stopped |-> stopped,
              st |-> [st EXCEPT
                  !.fp = Put(cleared, camera_id,
                             NewProcessor(camera_id, threshold, zone_id, st.zones)),
                  !.camera_configs =
                      Put(st.camera_configs, camera_id,
                          CameraConfig(src, threshold, zone_id))]]
        ELSE [status_code |-> 500, stopped |-> stopped,
              st |-> [st EXCEPT !.fp = cleared]]

\* lines 1190-1240
start_rtsp_monitoring(st, camera_id, rtsp_url, threshold, zone_id, ok) ==
    LET code == ZoneCheck(zone_id, st.zones)
    IN  IF code # 200
        THEN [status_code |-> code, stopped |-> {}, st |-> st]
        ELSE StartProcessor(st, camera_id, rtsp_url, threshold, zone_id, ok)

\* lines 1242-1310; is_video: the upload's content type starts with video/
process_video_file(st, camera_id, threshold, zone_id, is_video, ok) ==
    LET code == ZoneCheck(zone_id, st.zones)
    IN  IF code # 200
        THEN [status_code |-> code, stopped |-> {}, st |-> st]
        ELSE IF ~is_video
        THEN [status_code |-> 400, stopped |-> {}, st |-> st]
        ELSE StartProcessor(st, camera_id, "file", threshold, zone_id, ok)

\* lines 1611-1657 without the crowd-flow record of lines 1639-1652
CreateZoneWithoutFlow(st, zone_id, capacity) ==
    [status_code |-> 200, stopped |-> {},
     st |-> [st EXCEPT !.zones = Put(st.zones, zone_id, NewZone(capacity))]]

\* lines 1611-1657: nothing is tested; the zone and its crowd-flow record
\* are stored under a fresh id
create_zone(st, zone_id, capacity) ==
    [status_code |-> 200, stopped |-> {},
     st |-> [st EXCEPT
         !.zones = Put(st.zones, zone_id, NewZone(capacity)),
         !.crowd_flow_data = Put(st.crowd_flow_data, zone_id, NewFlow(capacity))]]

\* a request was answered
Request(endpoint, camera_id, zone_id, capacity) ==
    [endpoint |-> endpoint, camera_id |-> camera_id, zone_id |-> zone_id,
     capacity |-> capacity,
     known |-> zone_id \in DOMAIN zones,
     monitored |-> camera_id \in DOMAIN fp]

Answer(request, r) ==
    /\ fn_in' = request
    /\ fn_out' = <<[status_code |-> r.status_code, stopped |-> r.stopped,
                    same |-> [fp |-> r.st.fp = fp,
                              camera_configs |-> r.st.camera_configs = camera_configs,
                              zones |-> r.st.zones = zones,
                              crowd_flow_data |->
                                  r.st.crowd_flow_data = crowd_flow_data]]>>
    /\ fp' = r.st.fp
    /\ camera_configs' = r.st.camera_configs
    /\ zones' = r.st.zones
    /\ crowd_flow_data' = r.st.crowd_flow_data
    /\ UNCHANGED <<now, dedupVars, gateVars, hubVars, alerts_sent, workerVars,
                   taskVars>>

AdminStartRtsp ==
    \E camera_id \in AdminCameras, threshold \in AdminThresholds,
       zone_id \in NamedZones, ok \in BOOLEAN :
        Answer(Request("/monitor/rtsp", camera_id, zone_id, 0),
               start_rtsp_monitoring(AdminState, camera_id, "rtsp", threshold,
                                     zone_id, ok))

AdminProcessVideo ==
    \E camera_id \in AdminCameras, threshold \in AdminThresholds,
       zone_id \in NamedZones, is_video \in BOOLEAN, ok \in BOOLEAN :
        Answer(Request("/process/video", camera_id, zone_id, 0),
               process_video_file(AdminState, camera_id, threshold, zone_id,
                                  is_video, ok))

AdminCreateZone ==
    \E capacity \in PostedCapacities :
        LET n == Cardinality(DOMAIN zones \ StartupZones) + 1
        IN  /\ n <= MaxCreated
            /\ Answer(Request("/zones", << >>, CreatedZoneId(n), capacity),
                      create_zone(AdminState, CreatedZoneId(n), capacity))

NextAdmin ==
    \/ AdminStartRtsp
    \/ AdminProcessVideo
    \/ AdminCreateZone

SpecAdmin == InitAdmin /\ [][NextAdmin]_vars

StartEndpoints == {"/monitor/rtsp", "/process/video"}

\* C26: a request to start monitoring that names a zone id not in the zone
\* map is rejected, and the rejection creates no processor, stops or
\* replaces no running processor and leaves camera_configs as it was.
C26_UnknownZoneRejected ==
    (fn_out # << >> /\ fn_in.endpoint \in StartEndpoints /\ ~fn_in.known) =>
        /\ fn_out[1].status_code \in {400, 404}
        /\ fn_out[1].stopped = {}
        /\ fn_out[1].same.fp
        /\ fn_out[1].same.camera_configs

\* a camera that is being monitored was named with an unknown zone
C26_Witness ==
    /\ fn_out # << >>
    /\ fn_in.endpoint \in StartEndpoints
    /\ fn_in.zone_id = "zone_unknown"
    /\ fn_in.monitored
    /\ fn_out[1].status_code = 404

\* C27: a request to create a zone with capacity zero or below is rejected
\* and leaves the zone map and the crowd-flow records as they were, so that
\* every zone has a capacity above zero.
C27_ZoneCapacityPositive ==
    /\ (fn_out # << >> /\ fn_in.endpoint = "/zones" /\ fn_in.capacity <= 0) =>
           /\ fn_out[1].status_code # 200
           /\ fn_out[1].same.zones
           /\ fn_out[1].same.crowd_flow_data
    /\ \A z \in DOMAIN zones : zones[z].capacity > 0

----------------------------------------------------------------------------
(* SpecZoneMap: zones are created and cameras started for them while the   *)
(* frames of the started cameras are analyzed and handled.  The start-up   *)
(* has run; a request and a frame are one step each, the request because   *)
(* its coroutine awaits nothing between its writes, the frame because the  *)
(* handler writes only inside the records of its own zone.                 *)

MaxZoneMapTime == 1   \* SpecZoneMap: the clock stops advancing here
MaxZoneMapZones == 1  \* SpecZoneMap: the zones created by POST /zones

\* the people counts of the frames and the capacities posted
ZoneMapCounts == {0, 6}
ZoneMapCapacities == {0, 5}

\* POST /zones
ZoneMapCreate ==
    \E capacity \in ZoneMapCapacities :
        LET n == Cardinality(DOMAIN zones \ StartupZones) + 1
        IN  /\ n <= MaxZoneMapZones
            /\ Answer(Request("/zones", << >>, CreatedZoneId(n), capacity),
                      create_zone(AdminState, CreatedZoneId(n), capacity))

\* POST /monitor/rtsp naming a zone that exists or an unknown one
ZoneMapStart ==
    \E camera_id \in AdminCameras,
       zone_id \in DOMAIN zones \cup {"zone_unknown"} :
        Answer(Request("/monitor/rtsp", camera_id, zone_id, 0),
               start_rtsp_monitoring(AdminState, camera_id, "rtsp",
                                     DefaultThreshold, zone_id, TRUE))

\* lines 503-516 for a frame of a started camera; the ghost of the last
\* request is dropped
ZoneMapFrame ==
    \E camera_id \in DOMAIN fp, people_count \in ZoneMapCounts :
        LET p == fp[camera_id]
        IN  /\ now > p.frame_time
            /\ fn_in' = << >>
            /\ fn_out' = << >>
            /\ UNCHANGED <<now, gateVars, ws_accepted, bc, workerVars,
                           configVars, taskVars>>
            /\ IF AnalyzeRaises(p, now, people_count, TRUE)
               THEN /\ fp' = [fp EXCEPT ![camera_id].frame_time = now]
                    /\ UNCHANGED <<dedupVars, websocket_connections,
                                   crowd_flow_data, zones, alerts_sent>>
               ELSE LET a == _analyze_frame(p, now, people_count, 0, FALSE, FALSE)
                        p1 == [AfterAnalyze(p, now, people_count)
                                   EXCEPT !.frame_time = now]
                    IN  \E W \in {_handle_analysis(
                                       World(p1, Uuids(IdsNeeded(p, a))),
                                       a, {})} :
                            /\ fp' = [fp EXCEPT ![camera_id] = W.p]
                            /\ alert_content_hash' = W.tabs.hash
                            /\ alert_last_sent' = W.tabs.last
                            /\ websocket_connections' = W.conns
                            /\ crowd_flow_data' = W.flow
                            /\ zones' = W.zones
                            /\ alerts_sent' = W.sent

ZoneMapTick ==
    /\ Tick(MaxZoneMapTime)
    /\ UNCHANGED <<dedupVars, gateVars, fnVars, hubVars, handleVars,
                   workerVars, configVars, taskVars>>

NextZoneMap ==
    \/ ZoneMapCreate
    \/ ZoneMapStart
    \/ ZoneMapFrame
    \/ ZoneMapTick

SpecZoneMap == InitAdmin /\ [][NextZoneMap]_vars

\* the last step was a POST /zones
ZoneJustCreated ==
    /\ fn_out # << >>
    /\ fn_in.endpoint = "/zones"

\* C40: the zone map and the crowd-flow records always have the same keys
\* and each record has its zone's capacity; the keys change only when a
\* zone is created, which adds the new id to both, with occupancy 0,
\* occupancy_percentage 0.0 and trend "stable"; handling a frame adds and
\* removes no key.
C40_ZoneMapAndFlowAgree ==
    /\ [](DOMAIN zones = DOMAIN crowd_flow_data)
    /\ [](\A z \in DOMAIN zones : crowd_flow_data[z].capacity = zones[z].capacity)
    /\ [](ZoneJustCreated =>
              LET z == fn_in.zone_id
              IN  /\ z \in DOMAIN zones
                  /\ z \in DOMAIN crowd_flow_data
                  /\ zones[z].current_occupancy = 0
                  /\ crowd_flow_data[z].current_occupancy = 0
                  /\ crowd_flow_data[z].occupancy_percentage = 0
                  /\ crowd_flow_data[z].trend = "stable")
    /\ [][(\/ DOMAIN zones' # DOMAIN zones
           \/ DOMAIN crowd_flow_data' # DOMAIN crowd_flow_data)
              => /\ ZoneJustCreated'
                 /\ fn_in'.zone_id \notin DOMAIN zones
                 /\ DOMAIN zones' = DOMAIN zones \cup {fn_in'.zone_id}]_vars

\* a camera was started for a created zone and a frame of 6 people of it
\* was handled, with every zone that can be created present
C40_Witness ==
    /\ Cardinality(DOMAIN zones) = Cardinality(StartupZones) + MaxZoneMapZones
    /\ \E z \in DOMAIN crowd_flow_data \ StartupZones :
           /\ crowd_flow_data[z].people_count = 6
           /\ crowd_flow_data[z].current_occupancy = 6

----------------------------------------------------------------------------
(* SpecHeatLevel: the heatmap's density level of every count under every   *)
(* zone capacity, next to the camera's tier for the same count             *)

\* lines 207-208, for a capacity above 0: (people_count / zone_capacity) *
\* 100, kept as its whole part.  The thresholds of the level are whole
\* numbers, so the whole part is at or above one exactly when the float is
\* (the float product is exact enough never to cross a whole number)
OccupancyPercentage(people_count, zone_capacity) ==
    (people_count * 100) \div zone_capacity

\* a generator was built for a zone and the camera has its threshold
InitHeatLevel ==
    /\ now = 0
    /\ DedupInit
    /\ GateInit
    /\ HubInit
    /\ HandlerIdle
    /\ WorkerIdle
    /\ \E zone_capacity \in 1..MaxCapacity, threshold \in AdminThresholds :
           fn_in = [zone_capacity |-> zone_capacity, threshold |-> threshold,
                    people_count |-> 0]
    /\ fn_out = << >>

\* lines 207-212 and line 561: the two levels of a frame with
\* people_count detections
HeatLevelApply ==
    \E people_count \in Counts :
        /\ fn_in' = [fn_in EXCEPT !.people_count = people_count]
        /\ fn_out' =
               <<[density_level |->
                      HeatmapDensityLevel(
                          OccupancyPercentage(people_count, fn_in.zone_capacity)),
                  tier |-> _calculate_density_level(people_count, fn_in.threshold)]>>
        /\ UNCHANGED notFn

NextHeatLevel == HeatLevelApply

SpecHeatLevel == InitHeatLevel /\ [][NextHeatLevel]_vars

\* C28: with p = detections / capacity * 100 the heatmap's level is
\* CRITICAL for p >= 90, HIGH for 70 <= p < 90, MEDIUM for 40 <= p < 70, LOW
\* for 10 <= p < 40 and NONE for p < 10, whatever the camera's threshold and
\* tier.
C28_HeatmapLevelTable ==
    fn_out # << >> =>
        LET c100 == 100 * fn_in.people_count
            cap == fn_in.zone_capacity
            level == fn_out[1].density_level
        IN  /\ (level = "CRITICAL") = (c100 >= 90 * cap)
            /\ (level = "HIGH") = (c100 >= 70 * cap /\ c100 < 90 * cap)
            /\ (level = "MEDIUM") = (c100 >= 40 * cap /\ c100 < 70 * cap)
            /\ (level = "LOW") = (c100 >= 10 * cap /\ c100 < 40 * cap)
            /\ (level = "NONE") = (c100 < 10 * cap)

\* a count at exactly 70 percent of the capacity is HIGH for the heatmap
\* while the camera's tier is LOW
C28_Witness ==
    /\ fn_out # << >>
    /\ 100 * fn_in.people_count = 70 * fn_in.zone_capacity
    /\ fn_out[1].density_level = "HIGH"
    /\ fn_out[1].tier = "LOW"

----------------------------------------------------------------------------
(* SpecCluster: the clustering test of _detect_anomalies on detections     *)
(* whose centers lie on one horizontal line                                *)

\* the x coordinates the centers are drawn from, and the point of the line
\* at each
ClusterXs == <<0, 40, 120>>

ClusterPoint(x) == <<x, 240>>

\* np.array([d.center for d in detections]) for counts[i] detections at
\* ClusterXs[i]
RECURSIVE Repeat(_, _)
Repeat(x, n) == IF n = 0 THEN << >> ELSE <<x>> \o Repeat(x, n - 1)

CentersOf(counts) ==
    Repeat(ClusterPoint(ClusterXs[1]), counts[1])
        \o Repeat(ClusterPoint(ClusterXs[2]), counts[2])
        \o Repeat(ClusterPoint(ClusterXs[3]), counts[3])

\* the Euclidean distance of two points of one horizontal line
Distance(a, b) == IF a[1] >= b[1] THEN a[1] - b[1] ELSE b[1] - a[1]

\* the sum of the distances from one point to each point of a list
RECURSIVE DistanceTo(_, _)
DistanceTo(a, centers) ==
    IF centers = << >> THEN 0
    ELSE Distance(a, Head(centers)) + DistanceTo(a, Tail(centers))

\* line 654, pdist: the distance of every pair (i, j) with i < j, summed
RECURSIVE PdistSum(_)
PdistSum(centers) ==
    IF Len(centers) < 2 THEN 0
    ELSE DistanceTo(Head(centers), Tail(centers)) + PdistSum(Tail(centers))

\* the number of pairs pdist gives
Pairs2(n) == (n * (n - 1)) \div 2

\* lines 655-657: np.mean(distances) < 50, on whole distances
MeanDistanceUnder50(centers) ==
    PdistSum(centers) < 50 * Pairs2(Len(centers))

\* the sum of the i-th coordinates
RECURSIVE SumOf(_, _)
SumOf(centers, i) ==
    IF centers = << >> THEN 0 ELSE Head(centers)[i] + SumOf(Tail(centers), i)

\* line 661, np.mean(centers, axis=0): each coordinate as the fraction
\* <<sum, count>>
Centroid(centers) ==
    <<<<SumOf(centers, 1), Len(centers)>>, <<SumOf(centers, 2), Len(centers)>> >>

\* lines 650-664
ClusterAnomalies(centers) ==
    IF /\ ClusterPossible(Len(centers))
       /\ Len(centers) > 1
       /\ MeanDistanceUnder50(centers)
    THEN <<[HighDensityCluster(Len(centers)) EXCEPT
                !.location = Centroid(centers)]>>
    ELSE << >>

\* how many detections stand at each of the three places
ClusterCounts ==
    {counts \in [1..3 -> 0..MaxCount] : counts[1] + counts[2] + counts[3] <= MaxCount}

\* a frame was read and its people detected
InitCluster ==
    /\ now = 0
    /\ DedupInit
    /\ GateInit
    /\ HubInit
    /\ HandlerIdle
    /\ WorkerIdle
    /\ \E counts \in ClusterCounts :
           fn_in = [counts |-> counts, centers |-> CentersOf(counts)]
    /\ fn_out = << >>

\* line 564: the anomalies of the frame
ClusterApply ==
    /\ fn_out = << >>
    /\ fn_out' = <<ClusterAnomalies(fn_in.centers)>>
    /\ UNCHANGED <<fn_in, notFn>>

NextCluster == ClusterApply

SpecCluster == InitCluster /\ [][NextCluster]_vars

\* C29: a frame gets a HIGH_DENSITY_CLUSTER anomaly only if it holds more
\* than 10 detections whose mean pairwise distance is under 50 px; it gets
\* at most one, of severity MEDIUM and confidence 0.7, located at the
\* centroid of the centers.
C29_ClusterRule ==
    fn_out # << >> =>
        LET c == fn_in.counts
            n == c[1] + c[2] + c[3]
            sum == c[1] * c[2] * (ClusterXs[2] - ClusterXs[1])
                   + c[1] * c[3] * (ClusterXs[3] - ClusterXs[1])
                   + c[2] * c[3] * (ClusterXs[3] - ClusterXs[2])
            found == fn_out[1]
        IN  /\ Len(found) <= 1
            /\ Len(found) = 1 =>
                   /\ found[1].type = "HIGH_DENSITY_CLUSTER"
                   /\ n > 10
                   /\ 2 * sum < 50 * n * (n - 1)
                   /\ found[1].severity = "MEDIUM"
                   /\ found[1].confidence = FloatValue("0.7")
                   /\ found[1].location[1][1] =
                          c[2] * ClusterXs[2] + c[3] * ClusterXs[3]
                   /\ found[1].location[1][2] = n
                   /\ found[1].location[2][1] = n * ClusterPoint(0)[2]
                   /\ found[1].location[2][2] = n

\* eleven detections at two places 40 px apart give one cluster anomaly
C29_Witness ==
    /\ fn_out # << >>
    /\ Len(fn_out[1]) = 1
    /\ fn_in.counts[1] > 0
    /\ fn_in.counts[2] > 0
    /\ fn_in.counts[1] + fn_in.counts[2] + fn_in.counts[3] = 11

----------------------------------------------------------------------------
(* SpecTracker: the movement history over more frames than it holds        *)
(*                                                                         *)
(* A detection set stands as its size.  fn_in lists the sizes of the       *)
(* frames _analyze_frame has returned for, oldest first.                   *)

\* the sizes of the detection sets of the frames
TrackerCounts == {0, 6}

\* a worker with no zone was built; no frame was read yet
InitTracker ==
    /\ now = 0
    /\ DedupInit
    /\ GateInit
    /\ HubInit
    /\ WorkerIdle
    /\ fn_in = << >>
    /\ fn_out = << >>
    /\ fp = [c \in HandleCameras |-> NewProcessor(c, DefaultThreshold, None, << >>)]
    /\ crowd_flow_data = << >>
    /\ zones = << >>
    /\ alerts_sent = {}
    /\ camera_configs = << >>
    /\ ws_tasks = << >>

\* lines 527-588: a frame is analyzed, or the detection raises and the
\* frame is dropped
TrackerFrame ==
    \E c \in HandleCameras, people_count \in TrackerCounts, yolo_ok \in BOOLEAN :
        /\ Len(fn_in) < MaxTracked
        /\ IF AnalyzeRaises(fp[c], now, people_count, yolo_ok)
           THEN UNCHANGED <<fp, fn_in>>
           ELSE /\ fp' = [fp EXCEPT ![c] = AfterAnalyze(@, now, people_count)]
                /\ fn_in' = Append(fn_in, people_count)
        /\ UNCHANGED <<now, dedupVars, gateVars, fn_out, hubVars, crowd_flow_data,
                       zones, alerts_sent, workerVars, configVars, taskVars>>

NextTracker == TrackerFrame

SpecTracker == InitTracker /\ [][NextTracker]_vars

\* the last n elements of a sequence
LastOf(seq, n) == SubSeq(seq, Len(seq) - n + 1, Len(seq))

\* C33: the movement history of a worker never holds more than 10 sets and
\* is always the sets of the last min(10, n) analyzed frames, oldest first.
C33_HistoryIsLastTen ==
    \A c \in DOMAIN fp :
        LET n == Len(fn_in)
            kept == IF n < 10 THEN n ELSE 10
        IN  /\ Len(fp[c].movement_tracker) <= 10
            /\ fp[c].movement_tracker = LastOf(fn_in, kept)

\* twelve frames were analyzed; the two oldest, of 6 people, are gone and
\* the ten frames kept are the empty ones that followed
C33_Witness ==
    /\ Len(fn_in) = 12
    /\ fn_in[1] = 6
    /\ fn_in[2] = 6
    /\ \E c \in DOMAIN fp : fp[c].movement_tracker = [i \in 1..10 |-> 0]

----------------------------------------------------------------------------
(* SpecPing: the loops of the four WebSocket endpoints                     *)
(*                                                                         *)
(* Each endpoint is a coroutine of the event loop: it accepts, adds the    *)
(* connection to its channel's set, sends a first message and then sleeps  *)
(* and sends in turn.  A sleep ends on time and a send takes no time.      *)
(* ws_tasks keeps, for each connection whose coroutine runs:               *)
(*   channel, camera_id : the channel of its endpoint                      *)
(*   wake  : when its sleep ends                                           *)
(*   since : when it was last sent a PING, or when it was accepted         *)
(*   last  : the type of the last message its endpoint sent it             *)

\* asyncio.sleep(30), lines 1032, 1061, 1086
PingInterval == 30

\* asyncio.sleep(5), line 1115
MapUpdateInterval == 5

PingSockets == 1..MaxPingSockets

PingChannels ==
    {<<"alerts", << >> >>, <<"frames", <<"cam1">> >>,
     <<"instructions", << >> >>, <<"live_map", << >> >>}

\* how long the loop of a channel's endpoint sleeps, and what it then sends
SleepOf(channel) ==
    IF channel = "live_map" THEN MapUpdateInterval ELSE PingInterval

MessageOf(channel) == IF channel = "live_map" THEN "MAP_UPDATE" ELSE "PING"

\* the first message of an endpoint
FirstMessageOf(channel) ==
    IF channel = "live_map" THEN "MAP_INITIALIZATION" ELSE "CONNECTION_ESTABLISHED"

InitPing ==
    /\ now = 0
    /\ DedupInit
    /\ GateInit
    /\ FnIdle
    /\ HubInit
    /\ HandlerIdle
    /\ WorkerIdle

\* lines 1016-1025, 1047-1057, 1075-1082, 1100-1111: up to the first sleep
PingConnect ==
    \E ch \in PingChannels, ws \in PingSockets :
        /\ now <= MaxConnectTime
        /\ WsSubscribe(ch[1], ch[2], ws)
        /\ ws_tasks' = Put(ws_tasks, ws,
               [channel |-> ch[1], camera_id |-> ch[2],
                wake |-> now + SleepOf(ch[1]), since |-> now,
                last |-> FirstMessageOf(ch[1])])
        /\ UNCHANGED <<now, dedupVars, gateVars, fnVars, bc, handleVars,
                       workerVars, configVars>>

\* lines 1028-1038, 1060-1066, 1085-1090, 1113-1122: the sleep is over, the
\* message is sent and the next sleep begins
PingWake ==
    \E ws \in DOMAIN ws_tasks :
        LET task == ws_tasks[ws]
            message == MessageOf(task.channel)
        IN  /\ task.wake = now
            /\ ws_tasks' = [ws_tasks EXCEPT
                   ![ws].wake = now + SleepOf(task.channel),
                   ![ws].since = IF message = "PING" THEN now ELSE @,
                   ![ws].last = message]
            /\ UNCHANGED <<now, dedupVars, gateVars, fnVars, hubVars, handleVars,
                           workerVars, configVars>>

\* lines 1039-1042, 1067-1070, 1091-1094, 1124-1128: the client has left,
\* WebSocketDisconnect ends the loop and the finally clause runs
PingDisconnect ==
    \E ws \in DOMAIN ws_tasks :
        /\ websocket_connections' =
               WithChannelSet(websocket_connections, ws_tasks[ws].channel,
                   ws_tasks[ws].camera_id,
                   ChannelSet(websocket_connections, ws_tasks[ws].channel,
                              ws_tasks[ws].camera_id) \ {ws})
        /\ ws_tasks' = Without(ws_tasks, ws)
        /\ UNCHANGED <<now, dedupVars, gateVars, fnVars, ws_accepted, bc,
                       handleVars, workerVars, configVars>>

\* a second passes, once every sleep that ends now has been followed by its
\* send
PingTick ==
    /\ \A ws \in DOMAIN ws_tasks : ws_tasks[ws].wake > now
    /\ Tick(MaxPingTime)
    /\ UNCHANGED <<dedupVars, gateVars, fnVars, hubVars, handleVars, workerVars,
                   configVars, taskVars>>

NextPing ==
    \/ PingConnect
    \/ PingWake
    \/ PingDisconnect
    \/ PingTick

SpecPing == InitPing /\ [][NextPing]_vars

\* C34: every connection of each of the four channels that stays connected
\* is sent a PING at least once every 30 s: never more than 30 s have
\* passed since its last PING, or since it was accepted.
C34_PingEvery30s ==
    \A ws \in DOMAIN ws_tasks : now - ws_tasks[ws].since <= 30

====
